---- MODULE Spec2Model ----
(***************************************************************************)
(* A model of the SEO rule engine: the server-side matcher and selector    *)
(* (src/server-multiuser.js: matchesUrl, isActiveNow, getActiveRulesForUrl,*)
(* GET /api/seo-rules/for-url) and the pixel that fetches the rules, picks *)
(* A/B variants and rewrites the page (src/unnamed/part_001).              *)
(*                                                                         *)
(* Specifications: SpecMatch (matchesUrl), SpecSelect (one for-url         *)
(* request), SpecVariant (one first selectVariant call), Spec (the pixel   *)
(* on a page), SpecLive (Spec with fair timers and DOMContentLoaded),      *)
(* SpecTelemetry (Spec with the impression POSTs settling).                *)
(*                                                                         *)
(* JavaScript strings are sequences of one-character strings; "" is <<>>.  *)
(* null/undefined is Null, a value that is no string of characters.        *)
(***************************************************************************)
EXTENDS Integers, Sequences, FiniteSets, TLC

VARIABLES
    mCall,          \* SpecMatch: the last call of matchesUrl, with its outcome
    vCall,          \* SpecVariant: the last call of selectVariant, with its outcome
    db,             \* the SEORule collection, in insertion order
    now,            \* the server clock
    sCall,          \* SpecSelect: the last for-url request, with its response
    seoPixelConfig, \* window.seoPixelConfig as the host page set it
    doc0,           \* the page as the host served it
    pixel,          \* the page now, originalTags, appliedRules, sessionStorage,
                    \* the impression POSTs sent, the log of applyRule calls
    runs,           \* the calls of init: the one at load, then each reapply
    domReady,       \* document.readyState is no longer 'loading'
    store,          \* server side: what the handlers under study read and write
    handlers        \* server side: the requests being handled, each with its position

pixelVars == <<seoPixelConfig, doc0, pixel, runs, domReady>>

vars == <<store, handlers, mCall, vCall, db, now, sCall, seoPixelConfig, doc0, pixel, runs, domReady>>

\* ------------------------------------------------------------------------
\* Bounds of the model
\* ------------------------------------------------------------------------
MaxUrlLen == 3
MaxPatLen == 2
MaxTime == 2
MaxDbRules == 2
MaxRules == 2
MaxRuns == 2
MaxVariants == 2
MaxPosts == 3
MaxApplications == 3
MaxTextLen == 3
MaxLimit == 5
MaxRequests == 2

\* ------------------------------------------------------------------------
\* JavaScript values
\* ------------------------------------------------------------------------
Null == <<"<null>">>

Falsy(v) == v = Null \/ v = <<>>

\* String(v), as sessionStorage.setItem and template substitution apply it
JsString(v) == IF v = Null THEN <<"n", "u", "l", "l">> ELSE v

RECURSIVE SeqsUpTo(_, _)
SeqsUpTo(chars, n) ==
    IF n = 0 THEN {<<>>}
    ELSE LET shorter == SeqsUpTo(chars, n - 1)
         IN shorter \cup {Append(s, c) : s \in {t \in shorter : Len(t) = n - 1}, c \in chars}

\* s.indexOf(c) + 1: the first position of character c, 0 when absent
RECURSIVE IndexOfFrom(_, _, _)
IndexOfFrom(s, c, i) ==
    IF i > Len(s) THEN 0
    ELSE IF s[i] = c THEN i
    ELSE IndexOfFrom(s, c, i + 1)

IndexOf(s, c) == IndexOfFrom(s, c, 1)

\* s.split(c)[0]
SplitFirst(s, c) ==
    IF IndexOf(s, c) = 0 THEN s ELSE SubSeq(s, 1, IndexOf(s, c) - 1)

\* s.replace(c, ''): a string pattern replaces the first occurrence only
ReplaceFirst(s, c) ==
    IF IndexOf(s, c) = 0 THEN s
    ELSE SubSeq(s, 1, IndexOf(s, c) - 1) \o SubSeq(s, IndexOf(s, c) + 1, Len(s))

StartsWith(s, t) == Len(t) <= Len(s) /\ SubSeq(s, 1, Len(t)) = t

EndsWith(s, t) == Len(t) <= Len(s) /\ SubSeq(s, Len(s) - Len(t) + 1, Len(s)) = t

Includes(s, t) ==
    \E i \in 1..(Len(s) + 1) : i + Len(t) - 1 <= Len(s) /\ SubSeq(s, i, i + Len(t) - 1) = t

\* array.includes(x)
ArrayIncludes(arr, x) == \E i \in 1..Len(arr) : arr[i] = x

\* ------------------------------------------------------------------------
\* Regular expressions: the fragment of literals and groups.  new RegExp(p)
\* throws a SyntaxError on an unmatched parenthesis.
\* ------------------------------------------------------------------------
RECURSIVE ParenDepthOk(_, _, _)
ParenDepthOk(p, i, depth) ==
    IF i > Len(p) THEN depth = 0
    ELSE IF p[i] = "(" THEN ParenDepthOk(p, i + 1, depth + 1)
    ELSE IF p[i] = ")" THEN depth > 0 /\ ParenDepthOk(p, i + 1, depth - 1)
    ELSE ParenDepthOk(p, i + 1, depth)

RegExpCompiles(p) == ParenDepthOk(p, 1, 0)

RegExpLiterals(p) == SelectSeq(p, LAMBDA c : c \notin {"(", ")"})

\* regex.test(s) of a compiled pattern: unanchored search
RegExpTest(p, s) == Includes(s, RegExpLiterals(p))

\* ------------------------------------------------------------------------
\* Matcher (seoRuleSchema.methods)
\* ------------------------------------------------------------------------
Return(v) == [raised |-> FALSE, value |-> v]

Raise == [raised |-> TRUE, value |-> FALSE]

CleanUrlQueryOnly(url) == SplitFirst(url, "?")

\* url.split('?')[0].split('#')[0]
CleanUrl(url) == SplitFirst(SplitFirst(url, "?"), "#")

RegexBranchNoCatch(urlPattern, cleanUrl) ==
    IF RegExpCompiles(urlPattern) THEN Return(RegExpTest(urlPattern, cleanUrl)) ELSE Raise

\* case 'regex': try { new RegExp(urlPattern).test(cleanUrl) } catch { false }
RegexBranch(urlPattern, cleanUrl) ==
    IF RegExpCompiles(urlPattern) THEN Return(RegExpTest(urlPattern, cleanUrl))
    ELSE Return(FALSE)

\* req.query.url when the query string names url more than once: an array,
\* which has no split method
UrlArray == <<"<array>">>

MatchesUrl(targeting, url) ==
    LET matchType == targeting.matchType
        urlPattern == targeting.urlPattern
        cleanUrl == CleanUrl(url)
    IN  IF url = UrlArray THEN Raise
        ELSE
        CASE matchType = "exact" -> Return(cleanUrl = urlPattern)
          [] matchType = "contains" -> Return(Includes(cleanUrl, ReplaceFirst(urlPattern, "*")))
          [] matchType = "starts_with" -> Return(StartsWith(cleanUrl, ReplaceFirst(urlPattern, "*")))
          [] matchType = "ends_with" -> Return(EndsWith(cleanUrl, ReplaceFirst(urlPattern, "*")))
          [] matchType = "regex" -> RegexBranch(urlPattern, cleanUrl)
          [] matchType = "all" -> Return(TRUE)
          [] OTHER -> Return(FALSE)

\* ------------------------------------------------------------------------
\* Inputs of the matcher
\* ------------------------------------------------------------------------
MatchTypes == {"exact", "contains", "starts_with", "ends_with", "regex", "all"}

UrlChars == {"a", "A", "?", "#"}

PatternChars == {"a", "A", "*", "?"}

RegexChars == {"a", "(", ")"}

Urls == SeqsUpTo(UrlChars, MaxUrlLen)

PatternsOf(matchType) ==
    IF matchType = "regex" THEN SeqsUpTo(RegexChars, MaxPatLen)
    ELSE SeqsUpTo(PatternChars, MaxPatLen)

\* A pending call of rule.matchesUrl(url)
MatchCall(matchType, urlPattern, url) ==
    [done |-> FALSE, matchType |-> matchType, urlPattern |-> urlPattern, url |-> url,
     raised |-> FALSE, value |-> FALSE]

CallMatchesUrl ==
    /\ ~mCall.done
    /\ LET out == MatchesUrl([matchType |-> mCall.matchType,
                               urlPattern |-> mCall.urlPattern], mCall.url)
       IN  mCall' = [mCall EXCEPT !.done = TRUE, !.raised = out.raised, !.value = out.value]
    /\ UNCHANGED <<store, handlers, vCall, db, now, sCall, pixelVars>>

\* ------------------------------------------------------------------------
\* Rule documents (seoRuleSchema).  A Date is <<t>>, an unset Date is <<>>;
\* a language or device is a plain string, "" when the request omits it.
\* ------------------------------------------------------------------------
\* ------------------------------------------------------------------------
\* Modification specs (rule.modifications).  present = the key is set on the
\* modifications object; maxLength 0 = not configured.
\* ------------------------------------------------------------------------
TextMod(action, value, maxLength) ==
    [present |-> TRUE, enabled |-> TRUE, action |-> action, value |-> value,
     template |-> Null, maxLength |-> maxLength]

\* action template: the template is a sequence of characters and of the
\* placeholders "{original}", "{brand}", "{year}", each one element
TemplateMod(template, maxLength) ==
    [present |-> TRUE, enabled |-> TRUE, action |-> "template", value |-> <<>>,
     template |-> template, maxLength |-> maxLength]

NoTextMod ==
    [present |-> FALSE, enabled |-> FALSE, action |-> "replace", value |-> <<>>,
     template |-> Null, maxLength |-> 0]

H1Mod(action, value, selector) ==
    [present |-> TRUE, enabled |-> TRUE, action |-> action, value |-> value,
     selector |-> selector]

NoH1Mod ==
    [present |-> FALSE, enabled |-> FALSE, action |-> "replace", value |-> <<>>,
     selector |-> Null]

CanonicalMod(action, url) ==
    [present |-> TRUE, enabled |-> TRUE, action |-> action, url |-> url,
     useCurrentUrl |-> FALSE]

NoCanonicalMod ==
    [present |-> FALSE, enabled |-> FALSE, action |-> "set", url |-> Null,
     useCurrentUrl |-> FALSE]

RobotsMod(directives) ==
    [present |-> TRUE, enabled |-> TRUE, hasDirectives |-> TRUE, directives |-> directives]

NoRobotsMod ==
    [present |-> FALSE, enabled |-> FALSE, hasDirectives |-> FALSE, directives |-> <<>>]

\* headings: [{ level, enabled, action, selector, value }], here one entry
HeadingsMod(action, value) ==
    [present |-> TRUE, enabled |-> TRUE, action |-> action, value |-> value]

NoHeadingsMod == [present |-> FALSE, enabled |-> FALSE, action |-> "replace", value |-> <<>>]

\* structuredData: { enabled, schemas: [{ type, data }] }, a schema being
\* the text of its data
StructuredDataMod(schemas) ==
    [present |-> TRUE, enabled |-> TRUE, hasSchemas |-> TRUE, schemas |-> schemas]

NoStructuredDataMod ==
    [present |-> FALSE, enabled |-> FALSE, hasSchemas |-> FALSE, schemas |-> <<>>]

\* internalLinks: { enabled, rules: [...] }
InternalLinksMod(rules) == [present |-> TRUE, enabled |-> TRUE, rules |-> rules]

NoInternalLinksMod == [present |-> FALSE, enabled |-> FALSE, rules |-> <<>>]

\* openGraph / twitterCard: { enabled, tags: [{ property | name, content }] }
Tag(key, content) == [key |-> key, content |-> content]

TagsMod(tags) == [present |-> TRUE, enabled |-> TRUE, hasTags |-> TRUE, tags |-> tags]

NoTagsMod == [present |-> FALSE, enabled |-> FALSE, hasTags |-> FALSE, tags |-> <<>>]

Mods(title, metaDescription, h1, canonical, robots) ==
    [title |-> title, metaDescription |-> metaDescription, h1 |-> h1,
     headings |-> NoHeadingsMod, openGraph |-> NoTagsMod, twitterCard |-> NoTagsMod,
     canonical |-> canonical, robots |-> robots,
     structuredData |-> NoStructuredDataMod, internalLinks |-> NoInternalLinksMod]

\* the same modifications with headings, structuredData and internalLinks set
ModsWith(modifications, headings, structuredData, internalLinks) ==
    [modifications EXCEPT !.headings = headings, !.structuredData = structuredData,
                          !.internalLinks = internalLinks]

NoMods == Mods(NoTextMod, NoTextMod, NoH1Mod, NoCanonicalMod, NoRobotsMod)

Variant(name, percentage, modifications) ==
    [name |-> name, percentage |-> percentage, modifications |-> modifications]

AbTesting(enabled, variants) == [enabled |-> enabled, variants |-> variants]

NoAbTesting == AbTesting(FALSE, <<>>)

Rule(id, websiteId, status, priority, targeting, schedule, modifications, abTesting) ==
    [id |-> id, websiteId |-> websiteId, status |-> status, priority |-> priority,
     targeting |-> targeting, schedule |-> schedule,
     modifications |-> modifications, abTesting |-> abTesting]

Statuses == {"active", "inactive", "draft", "testing"}

NoDate == <<>>

DateAt(t) == <<t>>

Schedule(enabled, startDate, endDate) ==
    [enabled |-> enabled, startDate |-> startDate, endDate |-> endDate]

NoSchedule == Schedule(FALSE, NoDate, NoDate)

Targeting(matchType, urlPattern, languages, devices) ==
    [matchType |-> matchType, urlPattern |-> urlPattern,
     languages |-> languages, devices |-> devices]

TargetAll == Targeting("all", <<"a">>, <<>>, <<>>)

\* The websites collection: siteId -> _id
Websites == [site1 |-> 1, site2 |-> 2]

\* Website.findOne({ siteId }): 0 when there is none
FindWebsite(siteId) == IF siteId \in DOMAIN Websites THEN Websites[siteId] ELSE 0

\* schema method isActiveNow, with new Date() = t
IsActiveNow(rule, t) ==
    IF rule.status # "active" THEN FALSE
    ELSE IF rule.schedule.enabled
              /\ \/ (rule.schedule.startDate # NoDate /\ t < rule.schedule.startDate[1])
                 \/ (rule.schedule.endDate # NoDate /\ t > rule.schedule.endDate[1])
         THEN FALSE
         ELSE TRUE

\* if (languages.length > 0) { if (options.language && !includes) return false }
LanguagePasses(rule, options) ==
    ~(Len(rule.targeting.languages) > 0
        /\ options.language # ""
        /\ ~ArrayIncludes(rule.targeting.languages, options.language))

DevicePasses(rule, options) ==
    ~(Len(rule.targeting.devices) > 0
        /\ options.device # ""
        /\ ~ArrayIncludes(rule.targeting.devices, options.device))

\* this.find({ websiteId, status: 'active' })
FindActive(rules, websiteId) ==
    SelectSeq(rules, LAMBDA r : r.websiteId = websiteId /\ r.status = "active")

IsPermutation(p, rs) ==
    /\ Len(p) = Len(rs)
    /\ \A i \in 1..Len(rs) : \E j \in 1..Len(p) : p[j] = rs[i]
    /\ \A i, j \in 1..Len(p) : (p[i] = p[j]) => (i = j)

OrderingsOf(rs) ==
    {p \in [1..Len(rs) -> {rs[i] : i \in 1..Len(rs)}] : IsPermutation(p, rs)}

SortOutcomesAscending(rs) ==
    {p \in OrderingsOf(rs) : \A i, j \in 1..Len(p) : (i < j) => (p[i].priority <= p[j].priority)}

\* .sort({ priority: -1 }): documents of equal priority come in any order
SortOutcomes(rs) ==
    {p \in OrderingsOf(rs) : \A i, j \in 1..Len(p) : (i < j) => (p[i].priority >= p[j].priority)}

PassesFilterNoSchedule(rule, url, options, t) ==
    /\ MatchesUrl(rule.targeting, url).value
    /\ LanguagePasses(rule, options)
    /\ DevicePasses(rule, options)

\* the callback of rules.filter in getActiveRulesForUrl
PassesFilter(rule, url, options, t) ==
    /\ MatchesUrl(rule.targeting, url).value
    /\ IsActiveNow(rule, t)
    /\ LanguagePasses(rule, options)
    /\ DevicePasses(rule, options)

\* statics.getActiveRulesForUrl, given the order the sorted query came in
GetActiveRulesForUrl(sorted, url, options, t) ==
    IF \E i \in 1..Len(sorted) : MatchesUrl(sorted[i].targeting, url).raised
    THEN [raised |-> TRUE, rules |-> <<>>]
    ELSE [raised |-> FALSE,
          rules |-> SelectSeq(sorted, LAMBDA r : PassesFilter(r, url, options, t))]

\* rules.map(rule => ({ id, name, priority, modifications, abTesting }))
Candidate(rule) ==
    [id |-> rule.id, priority |-> rule.priority,
     modifications |-> rule.modifications, abTesting |-> rule.abTesting]

MapCandidates(rules) == [i \in 1..Len(rules) |-> Candidate(rules[i])]

\* GET /api/seo-rules/for-url: the responses the handler can give
ForUrlResponses(rules, req, t) ==
    IF req.siteId = "" \/ req.url = <<>> THEN {[status |-> 400, rules |-> <<>>]}
    ELSE IF FindWebsite(req.siteId) = 0 THEN {[status |-> 404, rules |-> <<>>]}
    ELSE {LET got == GetActiveRulesForUrl(sorted, req.url,
                         [language |-> req.language, device |-> req.device], t)
          IN  IF got.raised THEN [status |-> 500, rules |-> <<>>]
              ELSE [status |-> 200, rules |-> MapCandidates(got.rules)]
          : sorted \in SortOutcomes(FindActive(rules, FindWebsite(req.siteId)))}

\* ------------------------------------------------------------------------
\* The pixel: the page (document), its snapshot and the mutators
\* ------------------------------------------------------------------------
Ellipsis == <<".", ".", ".">>

\* s.substring(0, n): a negative n counts as 0
Substring0(s, n) ==
    IF n <= 0 THEN <<>> ELSE IF n >= Len(s) THEN s ELSE SubSeq(s, 1, n)

\* array.join(', ')
RECURSIVE JoinComma(_)
JoinComma(parts) ==
    IF parts = <<>> THEN <<>>
    ELSE IF Len(parts) = 1 THEN parts[1]
    ELSE parts[1] \o <<",", " ">> \o JoinComma(Tail(parts))

\* A page: title and metaDescription are Null when the element is missing
\* jsonLd: the texts of the application/ld+json scripts of the head
\* meta: the meta elements carrying a property or a name, in document order
Page(title, metaDescription, h1, canonical, robots) ==
    [title |-> title, metaDescription |-> metaDescription, h1 |-> h1,
     canonical |-> canonical, robots |-> robots, jsonLd |-> <<>>, meta |-> <<>>]

\* <meta attr="key" content="content">, attr being "property" or "name"
MetaTag(attr, key, content) == [attr |-> attr, key |-> key, content |-> content]

\* originalTags = {}
NoOriginalTags == [title |-> Null, metaDescription |-> Null, h1 |-> Null]

\* what a mutator leaves behind: the page, the snapshot, and whether it threw
Outcome(page, tags, raised) == [doc |-> page, originalTags |-> tags, raised |-> raised]

\* if (config.maxLength && text.length > config.maxLength) cut and add '...'
ApplyMaxLength(text, maxLength) ==
    IF maxLength # 0 /\ Len(text) > maxLength
    THEN Substring0(text, maxLength - 3) \o Ellipsis
    ELSE text

\* result.replace(new RegExp('{key}', 'g'), value)
RECURSIVE ReplaceAllTokens(_, _, _)
ReplaceAllTokens(text, token, value) ==
    IF text = <<>> THEN <<>>
    ELSE (IF Head(text) = token THEN value ELSE <<Head(text)>>)
         \o ReplaceAllTokens(Tail(text), token, value)

\* applyTemplate(template, variables): the keys are substituted in order
RECURSIVE ApplyTemplate(_, _)
ApplyTemplate(template, variables) ==
    IF variables = <<>> THEN template
    ELSE ApplyTemplate(ReplaceAllTokens(template, variables[1][1], variables[1][2]),
                       Tail(variables))

\* window.seoPixelConfig?.brand || ''
Brand == <<"b">>

\* String(new Date().getFullYear())
YearText == <<"y">>

TitleVariables(original) ==
    << <<"{original}", original>>, <<"{brand}", Brand>>, <<"{year}", YearText>> >>

DescriptionVariables(original) ==
    << <<"{original}", original>>, <<"{brand}", Brand>> >>

\* the switch on config.action of modifyTitle and modifyMetaDescription;
\* applyTemplate throws a TypeError on a template that is undefined
NewText(config, original, variables) ==
    CASE config.action = "replace" -> [raised |-> FALSE, text |-> config.value]
      [] config.action = "prepend" -> [raised |-> FALSE, text |-> config.value \o original]
      [] config.action = "append" -> [raised |-> FALSE, text |-> original \o config.value]
      [] config.action = "template" ->
            IF config.template = Null THEN [raised |-> TRUE, text |-> <<>>]
            ELSE [raised |-> FALSE, text |-> ApplyTemplate(config.template, variables)]
      [] OTHER -> [raised |-> FALSE, text |-> <<>>]

\* if (!originalTags.x) originalTags.x = original
Snapshot(saved, original) == IF Falsy(saved) THEN original ELSE saved

ModifyTitle(config, page, tags) ==
    IF ~config.enabled THEN Outcome(page, tags, FALSE)
    ELSE LET originalTitle == IF page.title = Null THEN <<>> ELSE page.title
             saved == [tags EXCEPT !.title = Snapshot(tags.title, originalTitle)]
             new == NewText(config, originalTitle, TitleVariables(originalTitle))
         IN  IF new.raised
             THEN Outcome([page EXCEPT !.title = originalTitle], saved, TRUE)
             ELSE Outcome([page EXCEPT !.title = ApplyMaxLength(new.text, config.maxLength)],
                          saved, FALSE)

ModifyMetaDescription(config, page, tags) ==
    IF ~config.enabled THEN Outcome(page, tags, FALSE)
    ELSE LET originalDesc == IF page.metaDescription = Null THEN <<>> ELSE page.metaDescription
             saved == [tags EXCEPT
                          !.metaDescription = Snapshot(tags.metaDescription, originalDesc)]
             new == NewText(config, originalDesc, DescriptionVariables(originalDesc))
         IN  IF new.raised
             THEN Outcome([page EXCEPT !.metaDescription = originalDesc], saved, TRUE)
             ELSE Outcome([page EXCEPT
                              !.metaDescription = ApplyMaxLength(new.text, config.maxLength)],
                          saved, FALSE)

\* document.querySelectorAll(selector) throws a SyntaxError on a selector
\* with an unclosed attribute bracket
SelectorIsValid(selector) ==
    Len(SelectSeq(selector, LAMBDA c : c = "[")) = Len(SelectSeq(selector, LAMBDA c : c = "]"))

ModifyH1(config, page, tags) ==
    IF ~config.enabled THEN Outcome(page, tags, FALSE)
    ELSE IF ~Falsy(config.selector) /\ ~SelectorIsValid(config.selector)
    THEN Outcome(page, tags, TRUE)
    ELSE LET h1Elements == page.h1
             first == h1Elements[1]
             saved == [tags EXCEPT !.h1 = Snapshot(tags.h1, first)]
         IN  CASE config.action \in {"replace", "prepend", "append"} ->
                    IF Len(h1Elements) = 0 THEN Outcome(page, tags, FALSE)
                    ELSE Outcome([page EXCEPT !.h1[1] =
                                     CASE config.action = "replace" -> config.value
                                       [] config.action = "prepend" -> config.value \o first
                                       [] OTHER -> first \o config.value],
                                 saved, FALSE)
               [] config.action = "replace_all" ->
                    IF Len(h1Elements) = 0 THEN Outcome(page, tags, FALSE)
                    ELSE Outcome([page EXCEPT !.h1 = [i \in 1..Len(h1Elements) |-> config.value]],
                                 saved, FALSE)
               [] config.action = "inject_if_missing" ->
                    IF Len(h1Elements) = 0
                    THEN Outcome([page EXCEPT !.h1 = <<config.value>>], tags, FALSE)
                    ELSE Outcome(page, tags, FALSE)
               [] OTHER -> Outcome(page, tags, FALSE)

\* window.location.href.split('?')[0]
CurrentHrefNoQuery == <<"h", "a">>

ModifyCanonical(config, page, tags) ==
    IF ~config.enabled THEN Outcome(page, tags, FALSE)
    ELSE CASE config.action = "set" ->
                Outcome([page EXCEPT !.canonical =
                            IF config.useCurrentUrl THEN CurrentHrefNoQuery ELSE config.url],
                        tags, FALSE)
           [] config.action = "remove" -> Outcome([page EXCEPT !.canonical = Null], tags, FALSE)
           [] config.action = "update" ->
                IF page.canonical # Null /\ ~Falsy(config.url)
                THEN Outcome([page EXCEPT !.canonical = config.url], tags, FALSE)
                ELSE Outcome(page, tags, FALSE)
           [] OTHER -> Outcome(page, tags, FALSE)

ModifyRobots(config, page, tags) ==
    IF ~config.enabled \/ ~config.hasDirectives THEN Outcome(page, tags, FALSE)
    ELSE Outcome([page EXCEPT !.robots = JoinComma(config.directives)], tags, FALSE)

\* every schema is appended to the head as a new script element
ModifyStructuredData(config, page, tags) ==
    IF ~config.enabled \/ ~config.hasSchemas THEN Outcome(page, tags, FALSE)
    ELSE Outcome([page EXCEPT !.jsonLd = @ \o config.schemas], tags, FALSE)

\* The value of the quoted string that `meta[attr="${key}"]` opens, text
\* being what follows the opening quote: a backslash makes the character
\* after it part of the value, the next quote ends the string (no key here
\* holds a quote, a newline or a hexadecimal digit after a backslash)
RECURSIVE CssStringValue(_)
CssStringValue(text) ==
    IF text = <<>> \/ Head(text) = "\"" THEN <<>>
    ELSE IF Head(text) = "\\" /\ Len(text) > 1
    THEN <<text[2]>> \o CssStringValue(SubSeq(text, 3, Len(text)))
    ELSE <<Head(text)>> \o CssStringValue(Tail(text))

\* document.querySelector(`meta[attr="${key}"]`): the position of the first
\* element whose attribute equals the value the selector names, 0 when none
RECURSIVE FirstMeta(_, _, _, _)
FirstMeta(meta, attr, value, i) ==
    IF i > Len(meta) THEN 0
    ELSE IF meta[i].attr = attr /\ meta[i].key = value THEN i
    ELSE FirstMeta(meta, attr, value, i + 1)

QuerySelectorMeta(meta, attr, key) ==
    FirstMeta(meta, attr, CssStringValue(key \o <<"\"", "]">>), 1)

\* the body of config.tags.forEach: find the element or create it with
\* setAttribute(attr, key) and append it to the head, then set its content
SetMetaTag(meta, attr, tag) ==
    LET found == QuerySelectorMeta(meta, attr, tag.key)
    IN  IF found = 0 THEN Append(meta, MetaTag(attr, tag.key, tag.content))
        ELSE [meta EXCEPT ![found].content = tag.content]

RECURSIVE SetMetaTags(_, _, _, _)
SetMetaTags(meta, attr, tags, i) ==
    IF i > Len(tags) THEN meta
    ELSE SetMetaTags(SetMetaTag(meta, attr, tags[i]), attr, tags, i + 1)

ModifyOpenGraph(config, page, tags) ==
    IF ~config.enabled \/ ~config.hasTags THEN Outcome(page, tags, FALSE)
    ELSE Outcome([page EXCEPT !.meta = SetMetaTags(@, "property", config.tags, 1)],
                 tags, FALSE)

ModifyTwitterCard(config, page, tags) ==
    IF ~config.enabled \/ ~config.hasTags THEN Outcome(page, tags, FALSE)
    ELSE Outcome([page EXCEPT !.meta = SetMetaTags(@, "name", config.tags, 1)],
                 tags, FALSE)

\* the mutators applyRule calls, in the order of its if statements
MutatorOrder ==
    <<"title", "metaDescription", "h1", "openGraph", "twitterCard", "canonical", "robots",
      "structuredData">>

\* if (modifications.kind) modifyKind(modifications.kind)
Mutate(kind, modifications, page, tags) ==
    CASE kind = "title" -> ModifyTitle(modifications.title, page, tags)
      [] kind = "metaDescription" -> ModifyMetaDescription(modifications.metaDescription, page, tags)
      [] kind = "h1" -> ModifyH1(modifications.h1, page, tags)
      [] kind = "openGraph" -> ModifyOpenGraph(modifications.openGraph, page, tags)
      [] kind = "twitterCard" -> ModifyTwitterCard(modifications.twitterCard, page, tags)
      [] kind = "canonical" -> ModifyCanonical(modifications.canonical, page, tags)
      [] kind = "robots" -> ModifyRobots(modifications.robots, page, tags)
      [] kind = "structuredData" ->
            ModifyStructuredData(modifications.structuredData, page, tags)

\* ------------------------------------------------------------------------
\* A/B testing (selectVariant)
\* ------------------------------------------------------------------------
\* the for loop over the variants: the name assigned, Null when none is
RECURSIVE WalkVariants(_, _, _, _)
WalkVariants(variants, i, cumulative, random) ==
    IF i > Len(variants) THEN Null
    ELSE IF random <= cumulative + variants[i].percentage THEN variants[i].name
    ELSE WalkVariants(variants, i + 1, cumulative + variants[i].percentage, random)

\* variants.find(v => v.name === assignedVariant): its index, 0 when none
RECURSIVE FindVariant(_, _, _)
FindVariant(variants, name, i) ==
    IF i > Len(variants) THEN 0
    ELSE IF variants[i].name = name THEN i
    ELSE FindVariant(variants, name, i + 1)

\* what sessionStorage.getItem gives back after setItem(key, v)
StoredForm(v) == JsString(v)

\* window.sessionStorage: the items by rule id (key seo_variant_<id>);
\* denied = every access throws a SecurityError (storage blocked by the user)
SessionStorage(denied, items) == [denied |-> denied, items |-> items]

\* selectVariant(rule), reading and writing the session storage; random is
\* the value of Math.random() * 100 should it be drawn
SelectVariant(rule, storage, random) ==
    IF ~rule.abTesting.enabled
    THEN [modifications |-> rule.modifications, variant |-> Null, storage |-> storage,
          raised |-> FALSE, drew |-> FALSE]
    ELSE IF storage.denied
    THEN [modifications |-> rule.modifications, variant |-> Null, storage |-> storage,
          raised |-> TRUE, drew |-> FALSE]
    ELSE LET stored == storage.items[rule.id]
             drawn == WalkVariants(rule.abTesting.variants, 1, 0, random)
             assignedVariant == IF Falsy(stored) THEN drawn ELSE stored
             storage2 == IF Falsy(stored)
                         THEN [storage EXCEPT !.items[rule.id] = StoredForm(drawn)]
                         ELSE storage
             found == FindVariant(rule.abTesting.variants, assignedVariant, 1)
         IN  [modifications |-> IF found # 0 THEN rule.abTesting.variants[found].modifications
                                ELSE rule.modifications,
              variant |-> assignedVariant,
              storage |-> storage2,
              raised |-> FALSE,
              drew |-> Falsy(stored)]

\* ------------------------------------------------------------------------
\* applyRule and init
\* ------------------------------------------------------------------------
\* the if statements of applyRule from the k-th on; raisedAt names the
\* mutator that threw ("" when none did), ran the mutators that were called
RECURSIVE RunMutators(_, _, _, _, _)
RunMutators(modifications, k, page, tags, ran) ==
    IF k > Len(MutatorOrder)
    THEN [doc |-> page, originalTags |-> tags, raisedAt |-> "", ran |-> ran]
    ELSE LET kind == MutatorOrder[k]
         IN  IF ~modifications[kind].present
             THEN RunMutators(modifications, k + 1, page, tags, ran)
             ELSE LET out == Mutate(kind, modifications, page, tags)
                  IN  IF out.raised
                      THEN [doc |-> out.doc, originalTags |-> out.originalTags,
                            raisedAt |-> kind, ran |-> Append(ran, kind)]
                      ELSE RunMutators(modifications, k + 1, out.doc, out.originalTags,
                                       Append(ran, kind))

\* the pixel's mutable state: the page, originalTags, appliedRules, the
\* session storage, the impression POSTs sent, and a log of applyRule calls
Pixel(page, tags, applied, storage, posts, log) ==
    [doc |-> page, originalTags |-> tags, appliedRules |-> applied,
     storage |-> storage, impressions |-> posts, applyLog |-> log]

\* recordImpression(ruleId, variant) up to its await: the POST is sent
Impression(run, ruleId, variant) ==
    [run |-> run, ruleId |-> ruleId, variant |-> variant, status |-> "pending"]

\* applyRule working on a copy of the page as served, not on the page as
\* the rules before it left it
ApplyRuleOnServedPage(rule, px, random, run) ==
    LET sv == SelectVariant(rule, px.storage, random)
        m == RunMutators(sv.modifications, 1, doc0, px.originalTags, <<>>)
        entry == [run |-> run, id |-> rule.id, priority |-> rule.priority,
                  variant |-> sv.variant, modifications |-> sv.modifications,
                  drawn |-> IF sv.drew THEN random ELSE -1,
                  ran |-> m.ran, raisedAt |-> IF sv.raised THEN "selectVariant" ELSE m.raisedAt,
                  docAfter |-> IF sv.raised THEN px.doc ELSE m.doc]
    IN  [px EXCEPT !.doc = entry.docAfter, !.storage = sv.storage,
                   !.applyLog = Append(@, entry)]

\* applyRule(rule) called by init run number run; the log entry keeps what
\* the call resolved and did, and the page it left
ApplyRule(rule, px, random, run) ==
    LET sv == SelectVariant(rule, px.storage, random)
        m == IF sv.raised
             THEN [doc |-> px.doc, originalTags |-> px.originalTags,
                   raisedAt |-> "selectVariant", ran |-> <<>>]
             ELSE RunMutators(sv.modifications, 1, px.doc, px.originalTags, <<>>)
        entry == [run |-> run, id |-> rule.id, priority |-> rule.priority,
                  variant |-> sv.variant, modifications |-> sv.modifications,
                  drawn |-> IF sv.drew THEN random ELSE -1,
                  ran |-> m.ran, raisedAt |-> m.raisedAt, docAfter |-> m.doc]
    IN  IF m.raisedAt # ""
        THEN Pixel(m.doc, m.originalTags, px.appliedRules, sv.storage, px.impressions,
                   Append(px.applyLog, entry))
        ELSE Pixel(m.doc, m.originalTags,
                   Append(px.appliedRules, [id |-> rule.id, variant |-> sv.variant]),
                   sv.storage,
                   Append(px.impressions, Impression(run, rule.id, sv.variant)),
                   Append(px.applyLog, entry))

\* whether the last applyRule call of px ended in its catch block
LastRaised(px) ==
    Len(px.applyLog) > 0 /\ px.applyLog[Len(px.applyLog)].raisedAt # ""

\* forEach without the try/catch of applyRule: the first exception ends the loop
RECURSIVE ApplyRulesUntilRaise(_, _, _, _, _)
ApplyRulesUntilRaise(rules, i, px, randoms, run) ==
    IF i > Len(rules) \/ (i > 1 /\ LastRaised(px)) THEN px
    ELSE ApplyRulesUntilRaise(rules, i + 1,
             ApplyRule(rules[i], px, IF i \in DOMAIN randoms THEN randoms[i] ELSE 0, run),
             randoms, run)

\* rules.forEach(rule => applyRule(rule)), from the i-th rule on
RECURSIVE ApplyRules(_, _, _, _, _)
ApplyRules(rules, i, px, randoms, run) ==
    IF i > Len(rules) THEN px
    ELSE ApplyRules(rules, i + 1,
                    ApplyRule(rules[i], px, IF i \in DOMAIN randoms THEN randoms[i] ELSE 0, run),
                    randoms, run)

\* a failed POST sent once more
SettleImpressionResending(px, i, status) ==
    LET settled == [px EXCEPT !.impressions[i].status = status]
    IN  IF status = "failed"
        THEN [settled EXCEPT !.impressions =
                                Append(@, [px.impressions[i] EXCEPT !.status = "pending"])]
        ELSE settled

\* a failed POST that blanks the title
SettleImpressionBlanking(px, i, status) ==
    IF status = "failed"
    THEN [px EXCEPT !.impressions[i].status = status, !.doc.title = <<>>]
    ELSE [px EXCEPT !.impressions[i].status = status]

\* recordImpression after its await: the response or the network error is
\* logged, nothing else
SettleImpression(px, i, status) == [px EXCEPT !.impressions[i].status = status]

\* window.seoPixelConfig; siteId "" when the host page gives none
SeoPixelConfig(siteId) == [siteId |-> siteId]

\* ------------------------------------------------------------------------
\* selectVariant on its own: one first resolution of a rule
\* ------------------------------------------------------------------------
NoVariantCall ==
    [done |-> FALSE, variants |-> <<>>, random |-> 0, variant |-> Null,
     modifications |-> NoMods, stored |-> Null]

\* no server-side request is under study
NoStore == [impressions |-> 0, samples |-> 0]

\* Math.random() * 100 lies in [0, DrawRange)
DrawRange == 100

\* modifications that set the title to one character
TitleOnly(c) ==
    Mods(TextMod("replace", <<c>>, 0), NoTextMod, NoH1Mod, NoCanonicalMod, NoRobotsMod)

\* the base modifications of the rule resolved
BaseModifications == TitleOnly("0")

\* the variants tried at position i of the list: two names, three
\* percentages, modifications that tell the position
VariantsAt(i) ==
    {Variant(name, percentage, TitleOnly(<<"1", "2", "3", "4">>[i])) :
        name \in {<<"V">>, <<"W">>}, percentage \in {0, 30, 50}}

VariantLists ==
    UNION {{vs \in [1..n -> UNION {VariantsAt(i) : i \in 1..n}] :
               \A i \in 1..n : vs[i] \in VariantsAt(i)} : n \in 0..MaxVariants}

\* the rule of the call: A/B testing enabled with the variants given
VariantRule(variants) ==
    Rule(1, 1, "active", 50, TargetAll, NoSchedule, BaseModifications,
         AbTesting(TRUE, variants))

\* ------------------------------------------------------------------------
\* The selector on its own: one for-url request against a rule collection
\* ------------------------------------------------------------------------
ScheduleChoices ==
    {Schedule(e, s, f) : e \in BOOLEAN, s \in {NoDate, DateAt(1)}, f \in {NoDate, DateAt(1)}}

\* Rule shapes the selector is tried on (the id is given by the position)
SelectShapes ==
    {[status |-> "active", websiteId |-> 1, priority |-> 80, targeting |-> TargetAll,
      schedule |-> sch] : sch \in ScheduleChoices}
    \cup
    {[status |-> st, websiteId |-> 1, priority |-> 90, targeting |-> TargetAll,
      schedule |-> Schedule(TRUE, DateAt(1), NoDate)] : st \in Statuses \ {"active"}}
    \cup
    {[status |-> "active", websiteId |-> 1, priority |-> 50,
      targeting |-> Targeting("all", <<"a">>, tl[1], tl[2]), schedule |-> NoSchedule]
        : tl \in {<< <<"fr">>, <<>> >>, << <<>>, <<"mobile">> >>, << <<"fr">>, <<"mobile">> >>}}
    \cup
    {[status |-> "active", websiteId |-> 2, priority |-> 50, targeting |-> TargetAll,
      schedule |-> NoSchedule],
     [status |-> "active", websiteId |-> 1, priority |-> 50,
      targeting |-> Targeting("exact", <<"A">>, <<>>, <<>>), schedule |-> NoSchedule]}

RuleOfShape(id, shape) ==
    Rule(id, shape.websiteId, shape.status, shape.priority, shape.targeting,
         shape.schedule, NoMods, NoAbTesting)

SelectDbs ==
    UNION {{[i \in 1..n |-> RuleOfShape(i, shapes[i])] : shapes \in [1..n -> SelectShapes]}
           : n \in 1..MaxDbRules}

ForUrlRequest(siteId, url, language, device) ==
    [siteId |-> siteId, url |-> url, language |-> language, device |-> device]

SelectRequests ==
    {ForUrlRequest("site1", <<"a">>, l, d) : l \in {"", "fr", "en"}, d \in {"", "mobile", "desktop"}}
    \cup {ForUrlRequest("", <<"a">>, "en", "desktop"),
          ForUrlRequest("site1", <<>>, "en", "desktop"),
          ForUrlRequest("site9", <<"a">>, "en", "desktop"),
          ForUrlRequest("site1", UrlArray, "en", "desktop")}

NoSelectCall ==
    [done |-> FALSE, req |-> ForUrlRequest("", <<>>, "", ""), at |-> 0,
     status |-> 0, rules |-> <<>>]

\* the server clock advances
Tick ==
    /\ ~sCall.done
    /\ now < MaxTime
    /\ now' = now + 1
    /\ UNCHANGED <<store, handlers, mCall, vCall, db, sCall, pixelVars>>

\* one GET /api/seo-rules/for-url request, answered
HandleForUrl ==
    /\ ~sCall.done
    /\ \E req \in SelectRequests :
       \E res \in ForUrlResponses(db, req, now) :
          sCall' = [done |-> TRUE, req |-> req, at |-> now,
                    status |-> res.status, rules |-> res.rules]
    /\ UNCHANGED <<store, handlers, mCall, vCall, db, now, pixelVars>>

InitSelect ==
    /\ mCall = MatchCall("all", <<>>, <<>>)
    /\ db \in SelectDbs
    /\ now = 0
    /\ store = NoStore
    /\ handlers = <<>>
    /\ sCall = NoSelectCall
    /\ vCall = NoVariantCall
    /\ seoPixelConfig = SeoPixelConfig("site1")
    /\ doc0 = Page(Null, Null, <<>>, Null, Null)
    /\ pixel = Pixel(doc0, NoOriginalTags, <<>>, SessionStorage(FALSE, <<>>), <<>>, <<>>)
    /\ runs = <<>>
    /\ domReady = TRUE

NextSelect == Tick \/ HandleForUrl

SpecSelect == InitSelect /\ [][NextSelect]_vars

InitMatch ==
    /\ \E matchType \in MatchTypes :
       \E urlPattern \in PatternsOf(matchType) :
       \E url \in Urls :
          mCall = MatchCall(matchType, urlPattern, url)
    /\ db = <<>>
    /\ now = 0
    /\ store = NoStore
    /\ handlers = <<>>
    /\ sCall = NoSelectCall
    /\ vCall = NoVariantCall
    /\ seoPixelConfig = SeoPixelConfig("site1")
    /\ doc0 = Page(Null, Null, <<>>, Null, Null)
    /\ pixel = Pixel(doc0, NoOriginalTags, <<>>, SessionStorage(FALSE, <<>>), <<>>, <<>>)
    /\ runs = <<>>
    /\ domReady = TRUE

NextMatch == CallMatchesUrl

SpecMatch == InitMatch /\ [][NextMatch]_vars

\* the first call of selectVariant for the rule in a session
CallSelectVariant ==
    /\ ~vCall.done
    /\ LET out == SelectVariant(VariantRule(vCall.variants),
                                SessionStorage(FALSE, [id \in {1} |-> Null]),
                                vCall.random)
       IN  vCall' = [vCall EXCEPT !.done = TRUE, !.variant = out.variant,
                                  !.modifications = out.modifications,
                                  !.stored = out.storage.items[1]]
    /\ UNCHANGED <<store, handlers, mCall, db, now, sCall, pixelVars>>

InitVariant ==
    /\ mCall = MatchCall("all", <<>>, <<>>)
    /\ \E variants \in VariantLists :
       \E random \in 0..(DrawRange - 1) :
          vCall = [NoVariantCall EXCEPT !.variants = variants, !.random = random]
    /\ db = <<>>
    /\ now = 0
    /\ store = NoStore
    /\ handlers = <<>>
    /\ sCall = NoSelectCall
    /\ seoPixelConfig = SeoPixelConfig("site1")
    /\ doc0 = Page(Null, Null, <<>>, Null, Null)
    /\ pixel = Pixel(doc0, NoOriginalTags, <<>>, SessionStorage(FALSE, <<>>), <<>>, <<>>)
    /\ runs = <<>>
    /\ domReady = TRUE

NextVariant == CallSelectVariant

SpecVariant == InitVariant /\ [][NextVariant]_vars

\* ------------------------------------------------------------------------
\* POST /api/seo-rules/:id/impression: requests for one rule, each handler
\* advancing from one await to the next
\* ------------------------------------------------------------------------
\* a request that has arrived; read is stats.impressions of the document
\* that findById loaded
ImpressionHandler(known) == [pc |-> "findById", known |-> known, read |-> 0, status |-> 0]

\* a pixel's POST arrives, for the rule or for an id no rule has
ArriveImpression ==
    /\ Len(handlers) < MaxPosts
    /\ \E known \in BOOLEAN : handlers' = Append(handlers, ImpressionHandler(known))
    /\ UNCHANGED <<store, mCall, vCall, db, now, sCall, pixelVars>>

\* await SEORule.findById(req.params.id), then 404 or on to recordImpression
FindById(h) ==
    /\ handlers[h].pc = "findById"
    /\ handlers' = [handlers EXCEPT ![h] =
                      IF handlers[h].known
                      THEN [@ EXCEPT !.pc = "saveRule", !.read = store.impressions]
                      ELSE [@ EXCEPT !.pc = "done", !.status = 404]]
    /\ UNCHANGED <<store, mCall, vCall, db, now, sCall, pixelVars>>

\* this.stats.impressions += 1 on the document loaded
Incremented(read) == read + 1

\* await rule.recordImpression(): save() writes the document's own value
SaveRule(h) ==
    /\ handlers[h].pc = "saveRule"
    /\ store' = [store EXCEPT !.impressions = Incremented(handlers[h].read)]
    /\ handlers' = [handlers EXCEPT ![h] = [@ EXCEPT !.pc = "savePerformance"]]
    /\ UNCHANGED <<mCall, vCall, db, now, sCall, pixelVars>>

\* await performance.save(), then res.json({ success: true })
SavePerformance(h) ==
    /\ handlers[h].pc = "savePerformance"
    /\ store' = [store EXCEPT !.samples = @ + 1]
    /\ handlers' = [handlers EXCEPT ![h] = [@ EXCEPT !.pc = "done", !.status = 200]]
    /\ UNCHANGED <<mCall, vCall, db, now, sCall, pixelVars>>

\* a save rejects: the catch block answers 500
SaveFails(h) ==
    /\ handlers[h].pc \in {"saveRule", "savePerformance"}
    /\ handlers' = [handlers EXCEPT ![h] = [@ EXCEPT !.pc = "done", !.status = 500]]
    /\ UNCHANGED <<store, mCall, vCall, db, now, sCall, pixelVars>>

InitImpression ==
    /\ mCall = MatchCall("all", <<>>, <<>>)
    /\ vCall = NoVariantCall
    /\ db = <<>>
    /\ now = 0
    /\ store = NoStore
    /\ handlers = <<>>
    /\ sCall = NoSelectCall
    /\ seoPixelConfig = SeoPixelConfig("site1")
    /\ doc0 = Page(Null, Null, <<>>, Null, Null)
    /\ pixel = Pixel(doc0, NoOriginalTags, <<>>, SessionStorage(FALSE, <<>>), <<>>, <<>>)
    /\ runs = <<>>
    /\ domReady = TRUE

NextImpression ==
    \/ ArriveImpression
    \/ \E h \in 1..Len(handlers) : FindById(h)
    \/ \E h \in 1..Len(handlers) : SaveRule(h)
    \/ \E h \in 1..Len(handlers) : SavePerformance(h)
    \/ \E h \in 1..Len(handlers) : SaveFails(h)

SpecImpression == InitImpression /\ [][NextImpression]_vars

\* ------------------------------------------------------------------------
\* The pixel on a page: init at load, reapply, the fetch with its retries
\* ------------------------------------------------------------------------
RetryAttempts == 3

TitleMaxLength == 60

DescriptionMaxLength == 160

\* the rules a site may hold; the id is the position in the catalogue
Catalogue ==
    << Rule(1, 1, "active", 20, TargetAll, NoSchedule,
            Mods(TextMod("replace", <<"A">>, TitleMaxLength),
                 TextMod("replace", <<"A">>, DescriptionMaxLength),
                 NoH1Mod, NoCanonicalMod, NoRobotsMod),
            NoAbTesting),
       Rule(2, 1, "active", 80, TargetAll, NoSchedule,
            Mods(TextMod("prepend", <<"B">>, TitleMaxLength),
                 TextMod("replace", <<"B">>, DescriptionMaxLength),
                 H1Mod("append", <<"B">>, Null), NoCanonicalMod, NoRobotsMod),
            NoAbTesting),
       Rule(3, 1, "active", 50, TargetAll, NoSchedule,
            Mods(NoTextMod, NoTextMod, H1Mod("replace", <<"H">>, <<"h", "1", "[">>),
                 CanonicalMod("set", <<"u">>), RobotsMod(<< <<"n">>, <<"f">> >>)),
            NoAbTesting),
       Rule(4, 1, "active", 50, TargetAll, NoSchedule,
            Mods(TextMod("append", <<"C">>, TitleMaxLength), NoTextMod,
                 NoH1Mod, NoCanonicalMod, NoRobotsMod),
            AbTesting(TRUE,
                << Variant(<<"V">>, 30,
                       Mods(TextMod("replace", <<"X">>, TitleMaxLength), NoTextMod,
                            NoH1Mod, NoCanonicalMod, NoRobotsMod)),
                   Variant(<<"W">>, 30,
                       Mods(NoTextMod, TemplateMod(<<"{original}", "{brand}">>, 0),
                            NoH1Mod, CanonicalMod("remove", Null), NoRobotsMod)) >>)),
       Rule(5, 1, "inactive", 90, TargetAll, NoSchedule,
            Mods(TextMod("replace", <<"Z">>, TitleMaxLength), NoTextMod,
                 NoH1Mod, NoCanonicalMod, NoRobotsMod),
            NoAbTesting),
       Rule(6, 1, "active", 40, TargetAll, NoSchedule,
            ModsWith(Mods(NoTextMod, NoTextMod, NoH1Mod, NoCanonicalMod,
                          RobotsMod(<< <<"i">> >>)),
                     HeadingsMod("replace", <<"S">>),
                     StructuredDataMod(<< <<"j">> >>),
                     InternalLinksMod(<< <<"l">> >>)),
            NoAbTesting) >>

RuleIds == 1..Len(Catalogue)

\* the rule collections tried: at most MaxRules rules of the catalogue
PixelDbs ==
    {SelectSeq(Catalogue, LAMBDA r : r.id \in ids) :
        ids \in {S \in SUBSET RuleIds : Cardinality(S) <= MaxRules}}

\* the pages tried: no tags at all, empty tags, filled tags
Pages ==
    {Page(Null, Null, <<>>, Null, Null),
     Page(<<>>, <<>>, << <<>> >>, Null, <<>>),
     Page(<<"T">>, <<"D">>, << <<"h">>, <<"g">> >>, <<"c">>, Null)}

\* Math.random() * 100, a few values of [0, 100)
DrawValues == {0, 30, 45, 75}

\* getCurrentUrl(), CONFIG.siteId, CONFIG.language, CONFIG.device
PixelRequest == ForUrlRequest(seoPixelConfig.siteId, <<"a">>, "en", "desktop")

\* a call of init: where it stands, the attempt of its fetch, the requests
\* it has sent, how it ended and the ids of the rules it was given
Run(pc, attempt) ==
    [pc |-> pc, attempt |-> attempt, requests |-> IF pc = "fetching" THEN 1 ELSE 0,
     outcome |-> "pending", fetched |-> <<>>]

\* init() up to its first await that has to wait
StartRun == IF domReady THEN Run("fetching", 1) ELSE Run("waitDom", 1)

\* the script as it loads while the document is loading: without a siteId
\* it returns before init() is called and before window.SEOPixel is set
ScriptStartAlways(siteId) == <<Run("waitDom", 1)>>

ScriptStart(siteId) == IF siteId = "" THEN <<>> ELSE <<Run("waitDom", 1)>>

\* the DOMContentLoaded event: every waiting init goes on to its fetch
DomContentLoaded ==
    /\ ~domReady
    /\ domReady' = TRUE
    /\ runs' = [r \in 1..Len(runs) |->
                  IF runs[r].pc = "waitDom" THEN Run("fetching", 1) ELSE runs[r]]
    /\ UNCHANGED <<store, handlers, mCall, vCall, db, now, sCall, seoPixelConfig, doc0, pixel>>

\* the host page calls window.SEOPixel.reapply(), which the script has set
Reapply ==
    /\ ScriptStart(seoPixelConfig.siteId) # <<>>
    /\ Len(runs) < MaxRuns
    /\ runs' = Append(runs, StartRun)
    /\ UNCHANGED <<store, handlers, mCall, vCall, db, now, sCall, seoPixelConfig, doc0, pixel, domReady>>

\* init() after the fetch: nothing when the list is empty, else forEach
InitAfterFetch(rules, px, randoms, r) ==
    IF Len(rules) = 0 THEN px ELSE ApplyRules(rules, 1, px, randoms, r)

RetryAllowedOnceMore(attempt) == attempt <= RetryAttempts

\* if (attempt < CONFIG.retryAttempts)
RetryAllowed(attempt) == attempt < RetryAttempts

\* the fetch of run r fails: network error, non-OK status or unreadable body
FetchFail(r) ==
    /\ runs[r].pc = "fetching"
    /\ IF RetryAllowed(runs[r].attempt)
       THEN /\ runs' = [runs EXCEPT ![r] = [@ EXCEPT !.pc = "retryWait"]]
            /\ pixel' = pixel
       ELSE /\ runs' = [runs EXCEPT ![r] = [@ EXCEPT !.pc = "done", !.outcome = "exhausted"]]
            /\ pixel' = InitAfterFetch(<<>>, pixel, <<>>, r)
    /\ UNCHANGED <<store, handlers, mCall, vCall, db, now, sCall, seoPixelConfig, doc0, domReady>>

SameAttempt(attempt) == attempt

\* fetchRulesForCurrentPage(attempt + 1)
NextAttempt(attempt) == attempt + 1

\* the retryDelay timer of run r fires: fetchRulesForCurrentPage(attempt + 1)
RetryTimer(r) ==
    /\ runs[r].pc = "retryWait"
    /\ runs' = [runs EXCEPT ![r] = [@ EXCEPT !.pc = "fetching",
                                              !.attempt = NextAttempt(@),
                                              !.requests = @ + 1]]
    /\ UNCHANGED <<store, handlers, mCall, vCall, db, now, sCall, seoPixelConfig, doc0, pixel, domReady>>

\* the rules of the response whose variant has to be drawn
NeedsDraw(rules, storage) ==
    {i \in 1..Len(rules) :
        /\ rules[i].abTesting.enabled
        /\ ~storage.denied
        /\ Falsy(storage.items[rules[i].id])}

\* the ids of a rule list
IdsOf(rules) == [i \in 1..Len(rules) |-> rules[i].id]

\* the fetch of run r is answered 200 with the rules of the for-url handler;
\* init goes on and applies them
FetchOk(r) ==
    /\ runs[r].pc = "fetching"
    /\ \E res \in ForUrlResponses(db, PixelRequest, now) :
          /\ res.status = 200
          /\ \E randoms \in [NeedsDraw(res.rules, pixel.storage) -> DrawValues] :
                pixel' = InitAfterFetch(res.rules, pixel, randoms, r)
          /\ runs' = [runs EXCEPT ![r] =
                        [@ EXCEPT !.pc = "done",
                                  !.outcome = IF Len(res.rules) = 0 THEN "empty"
                                              ELSE "applied",
                                  !.fetched = IdsOf(res.rules)]]
    /\ UNCHANGED <<store, handlers, mCall, vCall, db, now, sCall, seoPixelConfig, doc0, domReady>>

\* the impression POST number i is answered
ImpressionOk(i) ==
    /\ pixel.impressions[i].status = "pending"
    /\ pixel' = SettleImpression(pixel, i, "ok")
    /\ UNCHANGED <<store, handlers, mCall, vCall, db, now, sCall, seoPixelConfig, doc0, runs, domReady>>

\* the impression POST number i fails: fetch rejects
ImpressionFail(i) ==
    /\ pixel.impressions[i].status = "pending"
    /\ pixel' = SettleImpression(pixel, i, "failed")
    /\ UNCHANGED <<store, handlers, mCall, vCall, db, now, sCall, seoPixelConfig, doc0, runs, domReady>>

Init ==
    /\ mCall = MatchCall("all", <<>>, <<>>)
    /\ vCall = NoVariantCall
    /\ db \in PixelDbs
    /\ now = 0
    /\ store = NoStore
    /\ handlers = <<>>
    /\ sCall = NoSelectCall
    /\ seoPixelConfig \in {SeoPixelConfig("site1"), SeoPixelConfig("")}
    /\ doc0 \in Pages
    /\ \E denied \in BOOLEAN :
          pixel = Pixel(doc0, NoOriginalTags, <<>>,
                        SessionStorage(denied, [id \in RuleIds |-> Null]), <<>>, <<>>)
    /\ domReady = FALSE
    /\ runs = ScriptStart(seoPixelConfig.siteId)

Next ==
    \/ DomContentLoaded
    \/ Reapply
    \/ \E r \in 1..Len(runs) : FetchFail(r)
    \/ \E r \in 1..Len(runs) : RetryTimer(r)
    \/ \E r \in 1..Len(runs) : FetchOk(r)

Spec == Init /\ [][Next]_vars

\* the pixel together with what becomes of its impression POSTs
NextTelemetry ==
    \/ Next
    \/ \E i \in 1..Len(pixel.impressions) : ImpressionOk(i)
    \/ \E i \in 1..Len(pixel.impressions) : ImpressionFail(i)

SpecTelemetry == Init /\ [][NextTelemetry]_vars

\* the pixel with what the browser guarantees: the DOMContentLoaded event is
\* dispatched and a started timer fires.  A fetch has no timeout and no
\* AbortController, so nothing makes a request end.
SpecLive ==
    /\ Init
    /\ [][Next]_vars
    /\ WF_vars(DomContentLoaded)
    /\ WF_vars(\E r \in 1..Len(runs) : RetryTimer(r))

\* ------------------------------------------------------------------------
\* The routes under /api/seo-rules: dispatch in registration order, and what
\* each handler selects
\* ------------------------------------------------------------------------
\* a stored rule with its owner; the rule's websiteId names the owning site
Doc(rule, organizationId) == [rule |-> rule, organizationId |-> organizationId, impressions |-> 0]

\* the strings that cast to an ObjectId, with the rule id they stand for
ObjectIds == [r1 |-> 1, r2 |-> 2, r3 |-> 3]

\* the id a new document gets
FreshId == 3

\* req.body.ruleIds of the bulk requests tried: every id
BulkRuleIds == {1, 2, FreshId}

\* a route: path is what follows /api/seo-rules, ":id" a named parameter
Route(method, path, auth, handler) ==
    [method |-> method, path |-> path, auth |-> auth, handler |-> handler]

\* app.get / app.post / ... in the order of the calls
Routes ==
    <<Route("GET", <<>>, TRUE, "list"),
      Route("GET", <<":id">>, TRUE, "get"),
      Route("POST", <<>>, TRUE, "create"),
      Route("PUT", <<":id">>, TRUE, "update"),
      Route("DELETE", <<":id">>, TRUE, "delete"),
      Route("POST", <<":id", "duplicate">>, TRUE, "duplicate"),
      Route("PATCH", <<":id", "status">>, TRUE, "status"),
      Route("GET", <<"for-url">>, FALSE, "forUrl"),
      Route("POST", <<":id", "impression">>, FALSE, "impression"),
      Route("GET", <<":id", "performance">>, TRUE, "performance"),
      Route("POST", <<":id", "test-match">>, TRUE, "testMatch"),
      Route("GET", <<"stats", "overview">>, TRUE, "overview"),
      Route("PATCH", <<"bulk">>, TRUE, "bulk"),
      Route("GET", <<"export">>, TRUE, "export"),
      Route("POST", <<"import">>, TRUE, "import")>>

\* a request: user is the organization of the token's user, 0 without an
\* Authorization header; site is the site whose pixel sent it (0 for a
\* dashboard request), siteId the query parameter, action the body's action
ApiRequest(method, path, user, site, siteId, action) ==
    [method |-> method, path |-> path, user |-> user, site |-> site, siteId |-> siteId,
     action |-> action]

\* Express matches a path against a route segment by segment, a named
\* parameter matching any segment
RouteMatches(route, req) ==
    /\ route.method = req.method
    /\ Len(route.path) = Len(req.path)
    /\ \A k \in 1..Len(route.path) : route.path[k] = ":id" \/ route.path[k] = req.path[k]

\* the first route registered that matches, 0 when none does
RECURSIVE DispatchFrom(_, _)
DispatchFrom(req, k) ==
    IF k > Len(Routes) THEN 0
    ELSE IF RouteMatches(Routes[k], req) THEN k
    ELSE DispatchFrom(req, k + 1)

Dispatch(req) == DispatchFrom(req, 1)

\* what a handler leaves: the answer's status, the documents it read and
\* those it changed, and the collection afterwards
Handled(status, read, changed, docs) ==
    [status |-> status, read |-> read, changed |-> changed, docs |-> docs]

\* the documents of the collection that a filter selects
Selected(docs, P(_)) == {docs[i] : i \in {n \in 1..Len(docs) : P(docs[n])}}

\* findOne({ _id: req.params.id, organizationId: req.user.organizationId })
ById(docs, id, user) ==
    Selected(docs, LAMBDA d : d.rule.id = id /\ d.organizationId = user)

\* find({ organizationId: req.user.organizationId })
OfOrganization(docs, user) == Selected(docs, LAMBDA d : d.organizationId = user)

\* the collection with f applied to the documents of the set hit
Updated(docs, hit, f(_)) == [i \in 1..Len(docs) |-> IF docs[i] \in hit THEN f(docs[i]) ELSE docs[i]]

Without(docs, hit) == SelectSeq(docs, LAMBDA d : d \notin hit)

\* the handlers that take req.params.id
HandleById(handler, req, docs) ==
    IF req.path[1] \notin DOMAIN ObjectIds THEN Handled(500, {}, {}, docs)
    ELSE LET id == ObjectIds[req.path[1]]
             own == ById(docs, id, req.user)
             any == Selected(docs, LAMBDA d : d.rule.id = id)
         IN  CASE handler = "impression" ->
                    IF any = {} THEN Handled(404, {}, {}, docs)
                    ELSE Handled(200, any, any,
                                 Updated(docs, any, LAMBDA d : [d EXCEPT !.impressions = @ + 1]))
               [] own = {} -> Handled(404, {}, {}, docs)
               [] handler \in {"get", "performance", "testMatch"} -> Handled(200, own, {}, docs)
               [] handler = "update" ->
                    Handled(200, own, own,
                            Updated(docs, own, LAMBDA d : [d EXCEPT !.rule.priority = 10]))
               [] handler = "status" ->
                    Handled(200, own, own,
                            Updated(docs, own, LAMBDA d : [d EXCEPT !.rule.status = "inactive"]))
               [] handler = "delete" -> Handled(200, own, own, Without(docs, own))
               [] handler = "duplicate" ->
                    LET original == CHOOSE d \in own : TRUE
                    IN  Handled(201, own, {},
                                Append(docs, [original EXCEPT !.rule.id = FreshId,
                                                              !.rule.status = "draft",
                                                              !.impressions = 0]))

\* the handler of a route run to its answer, after authenticateToken
Handle(route, req, docs, t) ==
    IF route.auth /\ req.user = 0 THEN Handled(401, {}, {}, docs)
    ELSE CASE route.handler \in {"list", "export", "overview"} ->
                 Handled(200, OfOrganization(docs, req.user), {}, docs)
           [] route.handler = "forUrl" ->
                 LET res == CHOOSE r \in ForUrlResponses([i \in 1..Len(docs) |-> docs[i].rule],
                                        ForUrlRequest(req.siteId, <<"a">>, "", ""), t) : TRUE
                 IN  Handled(res.status,
                             Selected(docs, LAMBDA d : \E n \in 1..Len(res.rules) :
                                                          res.rules[n].id = d.rule.id),
                             {}, docs)
           [] route.handler = "bulk" ->
                 LET hit == Selected(docs, LAMBDA d : /\ d.rule.id \in BulkRuleIds
                                                      /\ d.organizationId = req.user)
                 IN  IF req.action = "delete" THEN Handled(200, {}, hit, Without(docs, hit))
                     ELSE Handled(200, {}, hit,
                                  Updated(docs, hit,
                                          LAMBDA d : [d EXCEPT !.rule.status = "inactive"]))
           [] OTHER -> HandleById(route.handler, req, docs)

\* the requests tried: the dashboard of either organization, with or without
\* its token, and the pixel of either site
RuleKeys == {"r1", "r2"}

ApiRequests ==
    {ApiRequest("PATCH", <<"bulk">>, user, 0, "", action) :
        user \in 0..2, action \in {"deactivate", "delete"}}
    \cup
    {ApiRequest(mp[1], mp[2], user, 0, "", "") :
        mp \in ({<<"GET", <<>> >>, <<"GET", <<"export">> >>}
                \cup {<<"GET", <<k>> >> : k \in RuleKeys}
                \cup {<<"PUT", <<k>> >> : k \in RuleKeys}
                \cup {<<"DELETE", <<k>> >> : k \in RuleKeys}
                \cup {<<"POST", <<k, "duplicate">> >> : k \in RuleKeys}
                \cup {<<"PATCH", <<k, "status">> >> : k \in RuleKeys}
                \cup {<<"GET", <<k, "performance">> >> : k \in RuleKeys}),
        user \in 0..2}
    \cup {ApiRequest("GET", <<"for-url">>, 0, site, <<"site1", "site2">>[site], "") :
             site \in 1..2}
    \cup {ApiRequest("POST", <<k, "impression">>, 0, site, "", "") :
             k \in RuleKeys, site \in 1..2}

\* one request dispatched and handled; the log keeps the route it went to
HandleRequest ==
    /\ Len(handlers) < MaxRequests
    /\ \E req \in ApiRequests :
          /\ Dispatch(req) # 0
          /\ Routes[Dispatch(req)].handler = "duplicate" =>
                \A i \in 1..Len(store) : store[i].rule.id # FreshId
          /\ LET route == Routes[Dispatch(req)]
                 out == Handle(route, req, store, now)
             IN  /\ store' = out.docs
                 /\ handlers' = Append(handlers, [req |-> req, handler |-> route.handler,
                                                  status |-> out.status, read |-> out.read,
                                                  changed |-> out.changed])
    /\ UNCHANGED <<mCall, vCall, db, now, sCall, pixelVars>>

InitApi ==
    /\ mCall = MatchCall("all", <<>>, <<>>)
    /\ vCall = NoVariantCall
    /\ db = <<>>
    /\ now = 0
    /\ store = <<Doc(Rule(1, 1, "active", 50, TargetAll, NoSchedule, NoMods, NoAbTesting), 1),
                 Doc(Rule(2, 2, "active", 50, TargetAll, NoSchedule, NoMods, NoAbTesting), 2)>>
    /\ handlers = <<>>
    /\ sCall = NoSelectCall
    /\ seoPixelConfig = SeoPixelConfig("site1")
    /\ doc0 = Page(Null, Null, <<>>, Null, Null)
    /\ pixel = Pixel(doc0, NoOriginalTags, <<>>, SessionStorage(FALSE, <<>>), <<>>, <<>>)
    /\ runs = <<>>
    /\ domReady = TRUE

NextApi == HandleRequest

SpecApi == InitApi /\ [][NextApi]_vars

\* ------------------------------------------------------------------------
\* POST /api/seo-rules/:id/test-match next to for-url: the same rule, url,
\* language and device, at the same time
\* ------------------------------------------------------------------------
\* the handler once findOne gave the rule: body is { url, language, device }
TestMatch(rule, body, t) ==
    IF body.url = <<>> THEN [status |-> 400, matches |-> FALSE]
    ELSE LET urlMatches == MatchesUrl(rule.targeting, body.url)
             isActive == IsActiveNow(rule, t)
             languageMatches ==
                 IF Len(rule.targeting.languages) > 0
                 THEN (IF body.language # ""
                       THEN ArrayIncludes(rule.targeting.languages, body.language)
                       ELSE FALSE)
                 ELSE TRUE
             deviceMatches ==
                 IF Len(rule.targeting.devices) > 0
                 THEN (IF body.device # ""
                       THEN ArrayIncludes(rule.targeting.devices, body.device)
                       ELSE FALSE)
                 ELSE TRUE
         IN  IF urlMatches.raised THEN [status |-> 500, matches |-> FALSE]
             ELSE [status |-> 200,
                   matches |-> urlMatches.value /\ isActive /\ languageMatches /\ deviceMatches]

\* the owner of a rule tests it with the url, language and device of the
\* for-url request just answered
HandleTestMatch ==
    /\ sCall.done
    /\ Len(handlers) = 0
    /\ \E j \in 1..Len(db) :
          LET out == TestMatch(db[j], sCall.req, now)
          IN  handlers' = <<[id |-> db[j].id, status |-> out.status, matches |-> out.matches]>>
    /\ UNCHANGED <<store, mCall, vCall, db, now, sCall, pixelVars>>

NextTestMatch == Tick \/ HandleForUrl \/ HandleTestMatch

SpecTestMatch == InitSelect /\ [][NextTestMatch]_vars

\* ------------------------------------------------------------------------
\* From the store's answer to the page: the for-url request answered at one
\* time, the rules applied by init at a later one
\* ------------------------------------------------------------------------
\* time passes between res.json(...) on the server and the continuation of
\* init after await response.json()
Latency ==
    /\ sCall.done
    /\ Len(pixel.applyLog) = 0
    /\ now < MaxTime
    /\ now' = now + 1
    /\ UNCHANGED <<store, handlers, mCall, vCall, db, sCall, pixelVars>>

\* init resumes with data.rules of the answer and applies them
Deliver ==
    /\ sCall.done
    /\ sCall.status = 200
    /\ Len(pixel.applyLog) = 0
    /\ Len(sCall.rules) > 0
    /\ pixel' = InitAfterFetch(sCall.rules, pixel, <<>>, 1)
    /\ UNCHANGED <<store, handlers, mCall, vCall, db, now, sCall, seoPixelConfig, doc0,
                   runs, domReady>>

NextDelivery == Tick \/ HandleForUrl \/ Latency \/ Deliver

SpecDelivery == InitSelect /\ [][NextDelivery]_vars

\* ------------------------------------------------------------------------
\* maxLength on its own: one rule setting the title or the description
\* ------------------------------------------------------------------------
TextValues == SeqsUpTo({"v"}, MaxTextLen)

\* title / metaDescription configurations with a positive maxLength
LimitedTextMods ==
    {TextMod(action, value, maxLength) :
        action \in {"replace", "prepend", "append"}, value \in TextValues,
        maxLength \in 1..MaxLimit}
    \cup {TemplateMod(<<"{original}", "v">>, maxLength) : maxLength \in 1..MaxLimit}

LimitedMods ==
    {Mods(c, NoTextMod, NoH1Mod, NoCanonicalMod, NoRobotsMod) : c \in LimitedTextMods}
    \cup {Mods(NoTextMod, c, NoH1Mod, NoCanonicalMod, NoRobotsMod) : c \in LimitedTextMods}

\* the texts the page is served with, as its title and as its description
ServedTexts == {Null, <<"T">>, <<"T", "T", "T">>}

\* init applies the one rule the for-url request was answered with
ApplyLimitedRule ==
    /\ Len(db) = 1
    /\ Len(pixel.applyLog) = 0
    /\ pixel' = InitAfterFetch(<<Candidate(db[1])>>, pixel, <<>>, 1)
    /\ UNCHANGED <<store, handlers, mCall, vCall, db, now, sCall, seoPixelConfig, doc0,
                   runs, domReady>>

InitTruncate ==
    /\ mCall = MatchCall("all", <<>>, <<>>)
    /\ vCall = NoVariantCall
    /\ \E modifications \in LimitedMods :
          db = <<Rule(1, 1, "active", 50, TargetAll, NoSchedule, modifications, NoAbTesting)>>
    /\ now = 0
    /\ store = NoStore
    /\ handlers = <<>>
    /\ sCall = NoSelectCall
    /\ seoPixelConfig = SeoPixelConfig("site1")
    /\ \E text \in ServedTexts : doc0 = Page(text, text, <<>>, Null, Null)
    /\ pixel = Pixel(doc0, NoOriginalTags, <<>>, SessionStorage(FALSE, <<>>), <<>>, <<>>)
    /\ runs = <<>>
    /\ domReady = TRUE

NextTruncate == ApplyLimitedRule

SpecTruncate == InitTruncate /\ [][NextTruncate]_vars

\* ------------------------------------------------------------------------
\* Open Graph and Twitter Card tags on their own: rules carrying tags,
\* applied one after another over any number of init runs
\* ------------------------------------------------------------------------
\* keys as a rule can carry them: og:-like, the same with the colon escaped
\* as in a stylesheet, and a key without a colon
MetaKeys == {<<"o", ":">>, <<"o", "\\", ":">>, <<"t">>}

TagLists ==
    {<<Tag(k, c)>> : k \in MetaKeys, c \in {<<"x">>, <<"y">>}}
    \cup {<<Tag(k, <<"x">>), Tag(k, <<"y">>)>> : k \in MetaKeys}

\* the meta elements of the page as served: none, one, or two of one key
MetaChoices ==
    {<<>>,
     <<MetaTag("property", <<"o", ":">>, <<"s">>)>>,
     <<MetaTag("name", <<"t">>, <<"s">>), MetaTag("name", <<"t">>, <<"s">>)>>}

\* modifications carrying only tags of one kind
TagsOnly(kind, tags) ==
    IF kind = "openGraph" THEN [NoMods EXCEPT !.openGraph = TagsMod(tags)]
    ELSE [NoMods EXCEPT !.twitterCard = TagsMod(tags)]

\* a rule as for-url serves it, its tags in the modifications of its one
\* variant (abTesting.variants[].modifications is Mixed: any key is stored)
TagRule(kind, tags) ==
    Candidate(Rule(1, 1, "active", 50, TargetAll, NoSchedule, NoMods,
                   AbTesting(TRUE, <<Variant(<<"V">>, 100, TagsOnly(kind, tags))>>)))

\* one init run (the script loading, or SEOPixel.reapply) whose fetch is
\* answered with one rule
ApplyTagRule ==
    /\ Len(pixel.applyLog) < MaxApplications
    /\ \E kind \in {"openGraph", "twitterCard"} :
       \E tags \in TagLists :
          pixel' = InitAfterFetch(<<TagRule(kind, tags)>>, pixel, <<0>>,
                                  Len(pixel.applyLog) + 1)
    /\ UNCHANGED <<store, handlers, mCall, vCall, db, now, sCall, seoPixelConfig, doc0,
                   runs, domReady>>

InitMeta ==
    /\ mCall = MatchCall("all", <<>>, <<>>)
    /\ vCall = NoVariantCall
    /\ db = <<>>
    /\ now = 0
    /\ store = NoStore
    /\ handlers = <<>>
    /\ sCall = NoSelectCall
    /\ seoPixelConfig = SeoPixelConfig("site1")
    /\ \E meta \in MetaChoices :
          doc0 = [Page(Null, Null, <<>>, Null, Null) EXCEPT !.meta = meta]
    /\ pixel = Pixel(doc0, NoOriginalTags, <<>>,
                     SessionStorage(FALSE, [id \in {1} |-> Null]), <<>>, <<>>)
    /\ runs = <<>>
    /\ domReady = TRUE

NextMeta == ApplyTagRule

SpecMeta == InitMeta /\ [][NextMeta]_vars

\* ------------------------------------------------------------------------
\* Claims about the matcher
\* ------------------------------------------------------------------------
RECURSIVE BeforeQueryOrFragment(_)
BeforeQueryOrFragment(url) ==
    IF url = <<>> \/ Head(url) \in {"?", "#"} THEN <<>>
    ELSE <<Head(url)>> \o BeforeQueryOrFragment(Tail(url))

\* C6: with matchType exact, matchesUrl returns true exactly when the URL cut
\* at its first '?' or '#' equals urlPattern, character for character.
C6_ExactMatchIffCleanPathEqual ==
    (mCall.done /\ mCall.matchType = "exact") =>
        /\ ~mCall.raised
        /\ mCall.value = (BeforeQueryOrFragment(mCall.url) = mCall.urlPattern)

C6_Witness ==
    /\ mCall.done /\ mCall.matchType = "exact"
    /\ mCall.url = <<"a", "#", "?">>
    /\ mCall.urlPattern = <<"a">>
    /\ mCall.value

\* C7: with matchType regex and a pattern that does not compile, matchesUrl
\* returns false and raises nothing.
C7_InvalidRegexIsNonMatch ==
    (mCall.done /\ mCall.matchType = "regex" /\ ~RegExpCompiles(mCall.urlPattern)) =>
        (~mCall.raised /\ ~mCall.value)

C7_Witness ==
    /\ mCall.done /\ mCall.matchType = "regex"
    /\ mCall.urlPattern = <<"(", "a">>
    /\ mCall.url = <<"a">>
    /\ ~mCall.raised /\ ~mCall.value

\* ------------------------------------------------------------------------
\* Claims about the selector
\* ------------------------------------------------------------------------
WindowOpenAt(schedule, t) ==
    /\ (schedule.startDate = NoDate \/ schedule.startDate[1] <= t)
    /\ (schedule.endDate = NoDate \/ t <= schedule.endDate[1])

LiveAt(rule, t) ==
    rule.status = "active" /\ (rule.schedule.enabled => WindowOpenAt(rule.schedule, t))

\* the stored rule a returned candidate stands for (ids are positions in db)
Stored(candidate) == CHOOSE r \in {db[i] : i \in 1..Len(db)} : r.id = candidate.id

\* C8: every rule the for-url request returns is live at the time of the
\* request: status active and, when scheduled, inside [startDate, endDate]
\* with unset bounds open; a scheduled rule starting in the future is never
\* returned.
C8_ReturnedRulesAreLive ==
    sCall.done =>
        \A i \in 1..Len(sCall.rules) : LiveAt(Stored(sCall.rules[i]), sCall.at)

C8_Witness ==
    /\ sCall.done /\ sCall.at = 0 /\ sCall.status = 200
    /\ Len(db) = 2 /\ Len(sCall.rules) = 1
    /\ Stored(sCall.rules[1]).schedule = Schedule(TRUE, NoDate, DateAt(1))
    /\ \E i \in 1..Len(db) :
          /\ db[i].status = "active" /\ db[i].websiteId = 1
          /\ db[i].schedule = Schedule(TRUE, DateAt(1), NoDate)

\* C9: a rule with a non-empty languages (devices) list is returned only if
\* the request's language (device) is in the list, and a rule with an empty
\* list is never left out because of the request's language (device).
C9_ListedLanguageAndDeviceRequired ==
    (sCall.done /\ sCall.status = 200) =>
        /\ \A i \in 1..Len(sCall.rules) :
              LET t == Stored(sCall.rules[i]).targeting
              IN  /\ (Len(t.languages) > 0 => ArrayIncludes(t.languages, sCall.req.language))
                  /\ (Len(t.devices) > 0 => ArrayIncludes(t.devices, sCall.req.device))
        /\ \A j \in 1..Len(db) :
              (/\ db[j].websiteId = FindWebsite(sCall.req.siteId)
               /\ LiveAt(db[j], sCall.at)
               /\ MatchesUrl(db[j].targeting, sCall.req.url).value
               /\ db[j].targeting.languages = <<>>
               /\ db[j].targeting.devices = <<>>)
              => \E i \in 1..Len(sCall.rules) : sCall.rules[i].id = j

\* ------------------------------------------------------------------------
\* Claims about the pixel
\* ------------------------------------------------------------------------
Log == pixel.applyLog

TextOf(v) == IF v = Null THEN <<>> ELSE v

\* C1: all resolutions of an A/B-tested rule in one session return the same
\* variant name as the first one.
C1_VariantIsSticky ==
    \A i, j \in 1..Len(Log) :
        (Log[i].id = Log[j].id) => (Log[i].variant = Log[j].variant)

Modified(kind) ==
    \E i \in 1..Len(Log) :
        /\ \E k \in 1..Len(Log[i].ran) : Log[i].ran[k] = kind
        /\ Log[i].modifications[kind].enabled

\* C2: once rules have modified the title (the meta description), the
\* snapshot originalTags.title (.metaDescription) is the value the page was
\* served with, whatever that value was.
C2_SnapshotIsServedValue ==
    /\ Modified("title") => pixel.originalTags.title = TextOf(doc0.title)
    /\ Modified("metaDescription") =>
          pixel.originalTags.metaDescription = TextOf(doc0.metaDescription)

\* C3: within one run of the pipeline the rules are applied by priority,
\* highest first.
C3_AppliedInPriorityOrder ==
    \A i, j \in 1..Len(Log) :
        (i < j /\ Log[i].run = Log[j].run) => (Log[i].priority >= Log[j].priority)

C3_Witness ==
    /\ Len(db) = 2 /\ db[1].priority < db[2].priority
    /\ Len(Log) = 2
    /\ Log[1].id = db[2].id /\ Log[2].id = db[1].id
    /\ Log[1].priority > Log[2].priority

\* the applyRule calls of the run that touched the page last
LastRunEntries == SelectSeq(Log, LAMBDA e : e.run = Log[Len(Log)].run)

ReplacesDescription(e) ==
    /\ e.modifications.metaDescription.present
    /\ e.modifications.metaDescription.enabled
    /\ e.modifications.metaDescription.action = "replace"
    /\ e.raisedAt = ""

\* C4: when two applied rules of different priority both replace the meta
\* description, the page ends with the value of the higher-priority rule.
C4_HigherPriorityReplaceWins ==
    Len(Log) > 0 =>
        \A i, j \in 1..Len(LastRunEntries) :
            LET hi == LastRunEntries[i]
                lo == LastRunEntries[j]
            IN  (/\ Len(LastRunEntries) = 2
                 /\ ReplacesDescription(hi) /\ ReplacesDescription(lo)
                 /\ hi.priority > lo.priority)
                => pixel.doc.metaDescription = hi.modifications.metaDescription.value

\* C5: a run whose every fetch failed made exactly RetryAttempts requests and
\* applied nothing; while no run has had a response, the page, the snapshot,
\* appliedRules and the impressions sent are as at load.
C5_ExhaustedFetchAppliesNothing ==
    /\ \A r \in 1..Len(runs) :
          runs[r].outcome = "exhausted" =>
              /\ runs[r].requests = RetryAttempts
              /\ \A i \in 1..Len(Log) : Log[i].run # r
              /\ \A i \in 1..Len(pixel.impressions) : pixel.impressions[i].run # r
    /\ (\A r \in 1..Len(runs) : runs[r].outcome \in {"pending", "exhausted"}) =>
          /\ pixel.doc = doc0
          /\ pixel.originalTags = NoOriginalTags
          /\ pixel.appliedRules = <<>>
          /\ pixel.impressions = <<>>

C5_Witness ==
    /\ Len(runs) = 1 /\ runs[1].outcome = "exhausted"
    /\ Len(db) = 2 /\ db[1].status = "active"
    /\ doc0.title = <<"T">> /\ pixel.doc = doc0

PositionOf(kind) == CHOOSE k \in 1..Len(MutatorOrder) : MutatorOrder[k] = kind

\* C10: when a mutator throws while a rule is applied, every later enabled
\* mutator of that rule still runs.
C10_LaterMutatorsStillRun ==
    \A i \in 1..Len(Log) :
        (\E p \in 1..Len(MutatorOrder) : MutatorOrder[p] = Log[i].raisedAt) =>
            \A k \in (PositionOf(Log[i].raisedAt) + 1)..Len(MutatorOrder) :
                (/\ Log[i].modifications[MutatorOrder[k]].present
                 /\ Log[i].modifications[MutatorOrder[k]].enabled)
                => \E n \in 1..Len(Log[i].ran) : Log[i].ran[n] = MutatorOrder[k]

\* the applyRule calls of run r, in the order they were made
EntriesOf(r) == SelectSeq(Log, LAMBDA e : e.run = r)

\* C11: a run of init that was given rules called applyRule for every rule
\* of the fetched list, in the list's order, whatever raised while an
\* earlier rule was applied (in a mutator or in selectVariant), and ended.
C11_LaterRulesStillApplied ==
    \A r \in 1..Len(runs) :
        /\ runs[r].outcome = "applied" =>
              /\ runs[r].pc = "done"
              /\ IdsOf(EntriesOf(r)) = runs[r].fetched
        /\ runs[r].outcome # "applied" => EntriesOf(r) = <<>>

C11_Witness ==
    /\ Len(runs) = 1 /\ runs[1].pc = "done" /\ Len(runs[1].fetched) = 2
    /\ Len(Log) = 2
    /\ Log[1].raisedAt = "selectVariant"
    /\ Log[2].raisedAt = "" /\ Log[2].id = 1
    /\ pixel.doc.title = <<"A">>
    /\ pixel.appliedRules = << [id |-> 1, variant |-> Null] >>

\* the tag-kinds of the model in the order the pipeline is said to keep
CanonicalOrder ==
    <<"title", "metaDescription", "h1", "headings", "canonical", "robots",
      "structuredData", "internalLinks">>

EnabledIn(modifications, kinds) ==
    SelectSeq(kinds, LAMBDA kind : modifications[kind].present /\ modifications[kind].enabled)

\* C12: a rule applied without an exception had every enabled tag-kind of
\* its resolved modifications mutated, in the order title, meta description,
\* h1, other headings, canonical, robots, structured data, internal links.
C12_EveryEnabledKindInFixedOrder ==
    \A i \in 1..Len(Log) :
        Log[i].raisedAt = "" =>
            EnabledIn(Log[i].modifications, Log[i].ran)
                = EnabledIn(Log[i].modifications, CanonicalOrder)

\* C13: applying the same resolved modifications twice in a row, without an
\* exception, leaves the page as the first application left it.
C13_MutatorsAreIdempotent ==
    \A i \in 1..Len(Log) :
        (/\ i < Len(Log)
         /\ Log[i].id = Log[i + 1].id
         /\ Log[i].modifications = Log[i + 1].modifications
         /\ Log[i].raisedAt = "" /\ Log[i + 1].raisedAt = "")
        => Log[i + 1].docAfter = Log[i].docAfter

Posts == pixel.impressions

\* the rule and variant of the applyRule calls of run r that did not raise
AppliedBy(r) ==
    LET ok == SelectSeq(Log, LAMBDA e : e.run = r /\ e.raisedAt = "")
    IN  [i \in 1..Len(ok) |-> [id |-> ok[i].id, variant |-> ok[i].variant]]

\* the rule and variant of the impression POSTs of run r
PostedBy(r) ==
    LET sent == SelectSeq(Posts, LAMBDA p : p.run = r)
    IN  [i \in 1..Len(sent) |-> [id |-> sent[i].ruleId, variant |-> sent[i].variant]]

\* C14: the impression POSTs are, one for one and in order, the entries of
\* appliedRules with their rule id and variant; per run of init they are the
\* rules whose application did not raise, whatever became of each POST.
C14_OneImpressionPerAppliedRule ==
    /\ Len(Posts) = Len(pixel.appliedRules)
    /\ \A i \in 1..Len(Posts) :
          /\ Posts[i].ruleId = pixel.appliedRules[i].id
          /\ Posts[i].variant = pixel.appliedRules[i].variant
    /\ \A r \in 1..Len(runs) : PostedBy(r) = AppliedBy(r)

C14_Witness ==
    /\ Len(runs) = 1 /\ Len(Log) = 2
    /\ Log[1].raisedAt = "h1" /\ Log[2].raisedAt = ""
    /\ Len(Posts) = 1
    /\ Posts[1].ruleId = Log[2].id /\ Posts[1].status = "failed"

\* the pixel's state with the fate of every impression POST blotted out
Visible(px) ==
    [px EXCEPT !.impressions = [i \in 1..Len(@) |-> [@[i] EXCEPT !.status = "pending"]]]

\* the step answers an impression POST, or lets it fail
ImpressionStep ==
    \E i \in 1..Len(Posts) : pixel'.impressions[i].status # Posts[i].status

\* the step is run r of init applying, to the pixel state px, a list of
\* rules the server can answer with
AppliesFetchedList(r, px) ==
    \E res \in ForUrlResponses(db, PixelRequest, now) :
    \E randoms \in [NeedsDraw(res.rules, px.storage) -> DrawValues] :
        /\ res.status = 200
        /\ runs'[r].fetched = IdsOf(res.rules)
        /\ Visible(pixel') = InitAfterFetch(res.rules, px, randoms, r)

\* C15: a step that settles an impression POST (answered or failed) changes
\* nothing of the page, the snapshot, appliedRules, the session storage or
\* the runs of init; and a run of init that applies its rules leaves the
\* pixel as it would with every earlier POST still unanswered, applying the
\* whole list in one step with the new POSTs unanswered.
C15_ImpressionsNeverAffectThePage ==
    [][/\ ImpressionStep =>
             (Visible(pixel') = Visible(pixel) /\ UNCHANGED <<store, handlers, runs, doc0, domReady>>)
       /\ \A r \in 1..Len(runs) :
             (runs[r].pc = "fetching" /\ runs'[r].outcome = "applied")
             => AppliesFetchedList(r, Visible(pixel))]_vars

C15_Witness ==
    /\ Len(runs) = 2 /\ runs[1].outcome = "applied" /\ runs[2].outcome = "applied"
    /\ Len(Log) = 4 /\ Len(Posts) = 4
    /\ Posts[1].status = "failed" /\ Posts[2].status = "pending"
    /\ Posts[3].status = "ok" /\ Posts[4].status = "pending"
    /\ pixel.doc = Log[4].docAfter /\ pixel.doc # doc0

\* C16: without a siteId in window.seoPixelConfig no init ever runs: no
\* request for rules, no applyRule call, no impression, and the page, the
\* snapshot, appliedRules and the session storage stay as at load.
C16_NoSiteIdDisablesThePixel ==
    seoPixelConfig.siteId = "" =>
        /\ runs = <<>>
        /\ Log = <<>> /\ Posts = <<>>
        /\ pixel.doc = doc0
        /\ pixel.originalTags = NoOriginalTags
        /\ pixel.appliedRules = <<>>
        /\ \A id \in RuleIds : pixel.storage.items[id] = Null

C16_Witness ==
    /\ seoPixelConfig.siteId = "" /\ domReady
    /\ Len(db) = 2 /\ db[1].status = "active" /\ db[2].status = "active"
    /\ doc0.title = <<"T">> /\ pixel.doc = doc0

\* ------------------------------------------------------------------------
\* Claims about selectVariant
\* ------------------------------------------------------------------------
RECURSIVE SumTo(_, _)
SumTo(variants, k) == IF k = 0 THEN 0 ELSE SumTo(variants, k - 1) + variants[k].percentage

\* the first position whose cumulative percentage reaches the draw, 0 if none
FirstReaching(variants, random) ==
    LET reaching == {k \in 1..Len(variants) : SumTo(variants, k) >= random}
    IN  IF reaching = {} THEN 0 ELSE CHOOSE k \in reaching : \A j \in reaching : k <= j

\* C17: the first resolution of a rule with A/B testing enabled returns the
\* name and the modifications of the first variant, in declared order, whose
\* cumulative percentage is at least the draw.
C17_FirstVariantReachingTheDraw ==
    vCall.done =>
        LET k == FirstReaching(vCall.variants, vCall.random)
        IN  k # 0 => /\ vCall.variant = vCall.variants[k].name
                     /\ vCall.modifications = vCall.variants[k].modifications

\* the stored rule of a log entry (ids are positions in the catalogue)
RuleOf(e) == Catalogue[e.id]

TotalPercentage(rule) == SumTo(rule.abTesting.variants, Len(rule.abTesting.variants))

\* C18: once the draw made for a rule exceeded the total of its variants'
\* percentages, that resolution and every later one in the session give the
\* rule's base modifications with variant null, and the impressions sent for
\* them carry variant null.
C18_DrawBeyondTotalStaysBase ==
    \A i, j \in 1..Len(Log) :
        (/\ i <= j /\ Log[i].id = Log[j].id
         /\ RuleOf(Log[i]).abTesting.enabled
         /\ Log[i].drawn > TotalPercentage(RuleOf(Log[i]))
         /\ Log[j].raisedAt # "selectVariant")
        => /\ Log[j].variant = Null
           /\ Log[j].modifications = RuleOf(Log[j]).modifications
           /\ \A p \in 1..Len(Posts) :
                 (Posts[p].run = Log[j].run /\ Posts[p].ruleId = Log[j].id)
                 => Posts[p].variant = Null

\* ------------------------------------------------------------------------
\* Claims about the fetch and its retries
\* ------------------------------------------------------------------------
\* C19: a call of fetchRulesForCurrentPage never has more than RetryAttempts
\* requests; a request after the first is sent only by the retryDelay timer,
\* which is only started by a failed attempt; and a call that has returned
\* (with the rules of a response, or empty-handed) sends nothing more.
C19_AtMostThreeRequestsPerFetch ==
    [][\A r \in 1..Len(runs) :
          /\ runs'[r].requests <= RetryAttempts
          /\ runs'[r].requests # runs[r].requests =>
                /\ runs'[r].requests = runs[r].requests + 1
                /\ runs[r].pc \in {"waitDom", "retryWait"}
                /\ runs'[r].pc = "fetching"
          /\ (runs'[r].pc = "retryWait" /\ runs[r].pc # "retryWait") =>
                (runs[r].pc = "fetching" /\ runs[r].requests = runs[r].attempt)
          /\ (runs[r].pc = "fetching" /\ runs'[r].outcome \in {"applied", "empty"}) =>
                runs'[r].pc = "done"
          /\ runs[r].pc = "done" => runs'[r] = runs[r]]_vars

C19_Witness ==
    /\ Len(runs) = 1 /\ runs[1].pc = "done" /\ runs[1].outcome = "applied"
    /\ runs[1].requests = 2 /\ runs[1].attempt = 2
    /\ Len(runs[1].fetched) = 2 /\ Len(Log) = 2

\* C20: every call of init gets its list of rules in the end and finishes,
\* even when requests are never answered.
C20_EveryFetchReturns ==
    \A r \in 1..MaxRuns :
        [](Len(runs) >= r => <>(Len(runs) >= r /\ runs[r].pc = "done"))

\* ------------------------------------------------------------------------
\* Claims about the interleaving of the pixel's callbacks
\* ------------------------------------------------------------------------
\* the page an applyRule call found: the one the call before it left
DocBefore(i) == IF i = 1 THEN doc0 ELSE Log[i - 1].docAfter

\* the page applyRule makes of a page with the modifications it resolved
MutatedBy(e, page) ==
    IF e.raisedAt = "selectVariant" THEN page
    ELSE RunMutators(e.modifications, 1, page, NoOriginalTags, <<>>).doc

\* C21: in every interleaving of init runs, fetch answers, retry timers and
\* impression callbacks, each applyRule call worked on the page exactly as
\* the call before it left it, the calls of one run of init are adjacent,
\* and only a run whose rule list has arrived has applyRule calls.
C21_RulesAppliedOneAfterAnother ==
    /\ \A i \in 1..Len(Log) : Log[i].docAfter = MutatedBy(Log[i], DocBefore(i))
    /\ Len(Log) > 0 => pixel.doc = Log[Len(Log)].docAfter
    /\ \A i, j, k \in 1..Len(Log) :
          (i < j /\ j < k /\ Log[i].run = Log[k].run) => Log[j].run = Log[i].run
    /\ \A i \in 1..Len(Log) :
          /\ runs[Log[i].run].pc = "done"
          /\ \E n \in 1..Len(runs[Log[i].run].fetched) :
                runs[Log[i].run].fetched[n] = Log[i].id

C21_Witness ==
    /\ Len(runs) = 2 /\ runs[1].pc = "done" /\ runs[2].pc = "done"
    /\ runs[2].requests = 1 /\ runs[1].requests = 2
    /\ Len(Log) = 4
    /\ Log[1].run = 2 /\ Log[2].run = 2 /\ Log[3].run = 1 /\ Log[4].run = 1
    /\ Log[1].docAfter # doc0 /\ Log[2].docAfter # Log[1].docAfter
    /\ Posts[1].status = "failed"

\* ------------------------------------------------------------------------
\* Claims about the server's impression handler
\* ------------------------------------------------------------------------
\* C22: once every impression request for the rule has been answered 200,
\* stats.impressions has grown by the number of requests and as many
\* performance samples are stored, however the handlers overlapped.
C22_EveryImpressionCounted ==
    (Len(handlers) > 0 /\ \A h \in 1..Len(handlers) : handlers[h].status = 200) =>
        /\ store.impressions = Len(handlers)
        /\ store.samples = Len(handlers)

\* ------------------------------------------------------------------------
\* Claims about the wildcard character of a pattern
\* ------------------------------------------------------------------------
WithoutStars(urlPattern) == SelectSeq(urlPattern, LAMBDA c : c # "*")

\* C23: with matchType contains, starts_with or ends_with, matchesUrl
\* compares the URL cut at its first '?' or '#' against urlPattern with
\* every '*' removed, also when the pattern holds more than one '*'.
C23_EveryStarStripped ==
    mCall.done =>
        /\ mCall.matchType = "contains" =>
              mCall.value = Includes(BeforeQueryOrFragment(mCall.url), WithoutStars(mCall.urlPattern))
        /\ mCall.matchType = "starts_with" =>
              mCall.value = StartsWith(BeforeQueryOrFragment(mCall.url), WithoutStars(mCall.urlPattern))
        /\ mCall.matchType = "ends_with" =>
              mCall.value = EndsWith(BeforeQueryOrFragment(mCall.url), WithoutStars(mCall.urlPattern))

\* ------------------------------------------------------------------------
\* Claims about Open Graph and Twitter Card tags
\* ------------------------------------------------------------------------
\* the number of meta elements of the page whose attribute attr is key
MetaCount(page, attr, key) ==
    Cardinality({i \in 1..Len(page.meta) : page.meta[i].attr = attr /\ page.meta[i].key = key})

\* C24: whatever Open Graph and Twitter Card tags the rules applied so far
\* carried, the page holds for every property and every name at most one
\* meta element, or as many as the page as served held if that was more.
C24_TagsAreUpserted ==
    \A attr \in {"property", "name"} :
    \A key \in MetaKeys :
        MetaCount(pixel.doc, attr, key) <=
            (IF MetaCount(doc0, attr, key) > 1 THEN MetaCount(doc0, attr, key) ELSE 1)

\* ------------------------------------------------------------------------
\* Claims about maxLength
\* ------------------------------------------------------------------------
\* the text a configuration asks for before any limit, given the text served
Unlimited(config, served) ==
    LET original == IF served = Null THEN <<>> ELSE served
    IN  CASE config.action = "replace" -> config.value
          [] config.action = "prepend" -> config.value \o original
          [] config.action = "append" -> original \o config.value
          [] config.action = "template" -> original \o <<"v">>

\* text has at most limit characters; it is wanted itself when wanted fits
\* the limit and ends with three dots otherwise
WithinLimit(text, wanted, limit) ==
    /\ Len(text) <= limit
    /\ Len(wanted) <= limit => text = wanted
    /\ Len(wanted) > limit =>
          (Len(text) >= 3 /\ SubSeq(text, Len(text) - 2, Len(text)) = <<".", ".", ".">>)

\* C25: after modifyTitle or modifyMetaDescription ran with a maxLength of
\* at least 1, the value set has at most maxLength characters; it ends with
\* '...' when the value asked for was longer and is that value otherwise.
C25_ValueFitsMaxLength ==
    \A i \in 1..Len(Log) :
        LET m == Log[i].modifications
        IN  /\ (m.title.present /\ m.title.enabled /\ m.title.maxLength >= 1) =>
                  WithinLimit(Log[i].docAfter.title, Unlimited(m.title, doc0.title),
                              m.title.maxLength)
            /\ (m.metaDescription.present /\ m.metaDescription.enabled
                    /\ m.metaDescription.maxLength >= 1) =>
                  WithinLimit(Log[i].docAfter.metaDescription,
                              Unlimited(m.metaDescription, doc0.metaDescription),
                              m.metaDescription.maxLength)

\* ------------------------------------------------------------------------
\* Claims about what the pixel checks before applying
\* ------------------------------------------------------------------------
\* C26: the pixel applies a delivered rule only if, at the time it applies
\* it, the rule's schedule window is open; a candidate whose window has
\* closed is left out.
C26_PixelRevalidatesSchedule ==
    \A i \in 1..Len(pixel.appliedRules) :
        LET rule == db[pixel.appliedRules[i].id]
        IN  rule.schedule.enabled => WindowOpenAt(rule.schedule, now)

\* ------------------------------------------------------------------------
\* Claims about errors during matching
\* ------------------------------------------------------------------------
\* C27: an error raised while one rule is evaluated never reaches the caller
\* of getActiveRulesForUrl: a for-url request that names a known site and a
\* url is answered 200, with the rules whose evaluation raised nothing and
\* that match.
C27_MatchingErrorsAreIsolated ==
    (sCall.done /\ sCall.req.siteId = "site1" /\ sCall.req.url # <<>>) =>
        /\ sCall.status = 200
        /\ \A j \in 1..Len(db) :
              (/\ db[j].websiteId = 1
               /\ ~MatchesUrl(db[j].targeting, sCall.req.url).raised
               /\ PassesFilter(db[j], sCall.req.url,
                               [language |-> sCall.req.language, device |-> sCall.req.device],
                               sCall.at))
              => \E n \in 1..Len(sCall.rules) : sCall.rules[n].id = db[j].id

\* ------------------------------------------------------------------------
\* Claims about the server's routes
\* ------------------------------------------------------------------------
\* the documents a handled request read or changed
Touched(e) == e.read \cup e.changed

\* C28: no request read or changed a rule of another owner: a request with
\* a user's token touches only rules of that user's organization, a pixel's
\* request only rules of the pixel's site.
C28_EveryOperationIsTenantScoped ==
    \A n \in 1..Len(handlers) :
    \A d \in Touched(handlers[n]) :
        /\ handlers[n].req.user # 0 => d.organizationId = handlers[n].req.user
        /\ handlers[n].req.user = 0 => d.rule.websiteId = handlers[n].req.site

\* C29: a GET /api/seo-rules/for-url request without an Authorization header
\* that names a known site is handled by the for-url handler and answered
\* 200 with the rule list.
C29_PixelReachesForUrl ==
    \A n \in 1..Len(handlers) :
        (/\ handlers[n].req.method = "GET"
         /\ handlers[n].req.path = <<"for-url">>
         /\ handlers[n].req.user = 0
         /\ handlers[n].req.siteId \in DOMAIN Websites)
        => (handlers[n].handler = "forUrl" /\ handlers[n].status = 200)

\* ------------------------------------------------------------------------
\* Claims about the test-match endpoint
\* ------------------------------------------------------------------------
\* C30: for a rule of the site asked about, the verdict of test-match is
\* true exactly when the for-url answer for the same url, language and
\* device at the same time holds the rule.
C30_TestMatchAgreesWithForUrl ==
    \A n \in 1..Len(handlers) :
        (/\ handlers[n].status = 200
         /\ sCall.status = 200
         /\ db[handlers[n].id].websiteId = FindWebsite(sCall.req.siteId))
        => (handlers[n].matches = (\E k \in 1..Len(sCall.rules) :
                                       sCall.rules[k].id = handlers[n].id))

====
